---- MODULE Spec2Model ----
(***************************************************************************)
(* Model of luminoso_api/auth.py: the request-signing authenticator       *)
(* LuminosoAuth (login, __call__, __signing_string, __on_response and     *)
(* no_retry_copy) together with the HTTP exchanges it takes part in.      *)
(*                                                                         *)
(* One top-level operation runs at a time (the client is synchronous):    *)
(* either a request sent through the authenticator's session, or an       *)
(* explicit call of login().  An operation is cut into steps at its       *)
(* blocking HTTP calls; the server's answers are the nondeterministic     *)
(* inputs.                                                                 *)
(***************************************************************************)
EXTENDS Integers, Sequences, FiniteSets, TLC

VARIABLES
    key_id,          \* self._key_id
    secret,          \* self._secret
    session_cookie,  \* self._session_cookie
    auto_login,      \* self._auto_login
    session_auth,    \* self.session.auth: "None" or "self"
    retry_auth,      \* the object returned by no_retry_copy(), or NoAuth
    pc,              \* position of the running operation
    req,             \* the PreparedRequest of the running request
    resp,            \* the response to the first transmission
    new_resp,        \* the response to the replay
    outcome,         \* what the caller gets: a response or an exception
    wire,            \* the HTTP messages transmitted by the running operation
    answers,         \* the statuses the server answered them with
    held,            \* the credentials held when the first response arrived
    old,             \* the credentials replaced by the latest committed relogin
    pre,             \* the request as it was before the latest attach
    now,             \* jstime.epoch(), in ms
    logins,          \* sessions the server has issued so far
    ops,             \* top-level operations started so far
    sign_in,         \* two attachments to compare: authenticator, request, time
    sign_out,        \* the two requests after __call__, or <<>>
    clients,         \* the LuminosoClient objects made so far
    client_pc,       \* position of the running client operation
    client_op,       \* the running client operation and its arguments
    sent,            \* the requests the running client operation has sent
    replies,         \* the answers the running client operation has received
    result,          \* what the caller of the client operation gets
    sleeps,          \* time.sleep() calls of the running client operation
    token_file,      \* the token file: whether it exists and what it holds
    calls,           \* the calls of connect() and save_token() made so far
    cli_args,        \* the parsed command line of the running lumi-api
    cli_pc,          \* position of the running lumi-api
    cli_trace,       \* what lumi-api has called and asked so far
    cli_status,      \* the exit status of lumi-api, -1 while it runs
    up_args,         \* the arguments of the running upload_project
    up_pc,           \* position of the running upload_project
    up_sent,         \* the requests upload_project has sent
    up_replies,      \* the answers it has received
    up_result,       \* what the caller of upload_project gets
    th_a,            \* thread A: position in __on_response
    th_fresh,        \* thread A: the credentials of its retry_auth
    th_b,            \* thread B: position in __call__
    th_local,        \* thread B: what __call__ has read so far
    th_out,          \* the requests thread B has sent
    th_steps         \* assignments of commits made so far

auth_vars == <<key_id, secret, session_cookie, auto_login, session_auth,
               retry_auth, pc, req, resp, new_resp, outcome, wire, answers,
               held, old, pre, now, logins, ops>>

signer_vars == <<sign_in, sign_out>>

client_vars == <<clients, client_pc, client_op, sent, replies, result, sleeps>>

file_vars == <<token_file, calls>>

cli_vars == <<cli_args, cli_pc, cli_trace, cli_status>>

upload_vars == <<up_args, up_pc, up_sent, up_replies, up_result>>

thread_vars == <<th_a, th_fresh, th_b, th_local, th_out, th_steps>>

more_vars == <<cli_vars, upload_vars, thread_vars>>

not_cli_vars == <<auth_vars, signer_vars, client_vars, file_vars, upload_vars,
                  thread_vars>>

not_upload_vars == <<auth_vars, signer_vars, client_vars, file_vars, cli_vars,
                     thread_vars>>

not_thread_vars == <<signer_vars, client_vars, file_vars, cli_vars, upload_vars>>

(* The variables of the authenticator besides its credentials *)
auth_rest == <<auto_login, session_auth, retry_auth, pc, req, resp, new_resp,
               outcome, wire, answers, held, old, pre, now, ops>>

extra_vars == <<file_vars, more_vars>>

vars == <<auth_vars, signer_vars, client_vars, extra_vars>>

----------------------------------------------------------------------------
(* Bounds of the model *)

MaxOps == 2
MaxNow == 1
MaxRot == 1
MaxWire == 5
MaxClients == 3
MaxPathLen == 2
MaxPolls == 3
MaxCalls == 2
MaxParams == 2
MaxDocs == 3
MaxRelogins == 2
MaxSigned == 2

(* BATCH_SIZE of v5_upload.py *)
BATCH_SIZE == 1000

(* validity_ms, the default of LuminosoAuth.__init__ *)
ValidityMs == 120000

----------------------------------------------------------------------------
(* Values *)

CT_NONE == "None"
CT_FORM == "application/x-www-form-urlencoded"
CT_JSON == "application/json"
CT_TEXT == "text/plain"

BODY_NONE == "None"

Host == "api.luminoso.com"

Digits == <<"0", "1", "2", "3", "4", "5", "6", "7", "8", "9">>

RECURSIVE ToStr(_)
ToStr(n) ==
    IF n < 10 THEN Digits[n + 1]
    ELSE ToStr(n \div 10) \o Digits[(n % 10) + 1]

(* A cookie value is opaque to the client; the model names it by the server *)
(* session it belongs to and the number of rotations it went through.       *)
Cookie(g, r) == [g |-> g, r |-> r]
NoCookie == Cookie(0, 0)
JarCookie == Cookie(0, 1)

(* The credentials the server issues with its n-th session *)
KeyIdOf(n) == "k" \o ToStr(n)
SecretOf(n) == "s" \o ToStr(n)

Creds(k, s, c) == [key_id |-> k, secret |-> s, session_cookie |-> c]

NoAuth == [key_id |-> "", secret |-> "", session_cookie |-> NoCookie,
           auto_login |-> FALSE, made |-> FALSE]

P(k, v) == [k |-> k, v |-> v]

----------------------------------------------------------------------------
(* Dictionaries, kept as sequences of (key, value) pairs with distinct keys *)
(* in insertion order.                                                      *)

Has(d, k) == \E i \in 1..Len(d) : d[i].k = k

Get(d, k) == d[CHOOSE i \in 1..Len(d) : d[i].k = k].v

Count(d, k) == Cardinality({i \in 1..Len(d) : d[i].k = k})

DictSet(d, k, v) ==
    IF Has(d, k)
    THEN [i \in 1..Len(d) |-> IF d[i].k = k THEN P(k, v) ELSE d[i]]
    ELSE Append(d, P(k, v))

DictPop(d, k) == SelectSeq(d, LAMBDA e : e.k # k)

RECURSIVE DictUpdate(_, _)
DictUpdate(d, e) ==
    IF e = <<>> THEN d
    ELSE DictUpdate(DictSet(d, Head(e).k, Head(e).v), Tail(e))

(* urlparse.parse_qs(s, keep_blank_values=True) followed by                 *)
(* {key: value[0] for ...}: every key once, with its first value.           *)
RECURSIVE ParseQs(_)
ParseQs(pairs) ==
    IF pairs = <<>> THEN <<>>
    ELSE LET rest == ParseQs(SelectSeq(Tail(pairs), LAMBDA e : e.k # Head(pairs).k))
         IN  <<Head(pairs)>> \o rest

(* The fields of a form-encoded body *)
FormFields(body) ==
    CASE body = "q=y"                          -> <<P("q", "y")>>
      [] body = "r=a b&sig=f&expires=9&r=z"    ->
             <<P("r", "a b"), P("sig", "f"), P("expires", "9"), P("r", "z")>>
      [] OTHER                                 -> <<>>

(* Parameter keys in lexicographic order: sorted(params.keys()) *)
KeyOrder == <<"expires", "key_id", "q", "r", "sig">>

(* The keys as the dictionary iterates them, had they not been sorted *)
SortedKeys_insertion_order(d) == [i \in 1..Len(d) |-> d[i].k]

SortedKeys(d) == SelectSeq(KeyOrder, LAMBDA k : Has(d, k))

(* js_compatible_quote: quote(string, safe="~@#$&()*!+=:;,.?/'") *)
js_compatible_quote(v) ==
    CASE v = "a b" -> "a%20b"
      [] OTHER     -> v

(* unquote() of a path *)
unquote(p) ==
    CASE p = "/api/a%20b/" -> "/api/a b/"
      [] OTHER             -> p

endswith_slash(p) == p \in {"/api/a%20b/", "/api/docs/"}

(* b64encode(sha1(content_body).digest()) *)
content_hash_of(body) == "sha1:" \o body

RECURSIVE Join(_)
Join(lines) ==
    IF lines = <<>> THEN ""
    ELSE Head(lines) \o "\n" \o Join(Tail(lines))

(* b64encode(HMAC(str(secret), signing_string, sha1).digest()) *)
b64_hmac(sec, signing_string) == "hmac[" \o sec \o "](" \o signing_string \o ")"

----------------------------------------------------------------------------
(* Requests *)

(* A request as the session hands it to the authenticator.  signing_list,  *)
(* params, at and by record the locals of the latest __call__ on it.        *)
Request(m, p, q, ct, b, c) ==
    [method |-> m, path |-> p, query |-> q, ctype |-> ct, body |-> b,
     cookie |-> c, hooks |-> <<>>, signing_list |-> <<>>, params |-> <<>>,
     at |-> 0, by |-> "none"]

NoRequest == Request("", "", <<>>, CT_NONE, BODY_NONE, NoCookie)

Queries ==
    { <<>>,
      <<P("q", "a b"), P("q", "x"), P("r", "")>>,
      <<P("expires", "1"), P("sig", "oldsig"), P("key_id", "k0"), P("q", "x")>> }

Payloads ==
    { <<"GET", CT_NONE, BODY_NONE>>,
      <<"POST", CT_FORM, "q=y">>,
      <<"POST", CT_FORM, "r=a b&sig=f&expires=9&r=z">>,
      <<"POST", CT_JSON, "{doc}">>,
      <<"POST", CT_JSON, BODY_NONE>>,
      <<"PUT", CT_TEXT, "hello">> }

(* The requests the callers make: every payload with every query string,   *)
(* and requests that differ in their path or carry a Cookie header set from *)
(* the session's cookie jar                                                 *)
Calls ==
    { Request(pl[1], "/api/ping", q, pl[2], pl[3], NoCookie) :
        pl \in Payloads, q \in Queries }
    \cup { Request("GET", "/api/a%20b/", q, CT_NONE, BODY_NONE, JarCookie) :
             q \in Queries }
    \cup { Request("POST", "/api/a%20b/", <<>>, CT_FORM, "q=y", c) :
             c \in {NoCookie, JarCookie} }

Statuses == {200, 204, 401, 500}

Response(st, c) == [status |-> st, cookie |-> c]
NoResponse == Response(0, NoCookie)

(* The replacement session cookies a server may set in answer to a request *)
(* that carried cookie c                                                    *)
Rotations(c) ==
    IF c.g > 0 /\ c.r < MaxRot THEN {Cookie(c.g, c.r + 1)} ELSE {}

(* The answers to POST /user/login/ *)
LoginReply(st, c, b) == [status |-> st, cookie |-> c, body |-> b]

LoginReplies ==
    { LoginReply(200, TRUE, "ok"), LoginReply(200, FALSE, "ok"),
      LoginReply(200, TRUE, "nokey"), LoginReply(200, TRUE, "nosecret"),
      LoginReply(204, TRUE, "ok"), LoginReply(401, FALSE, "error") }

LoginMsg(t) ==
    [Request("POST", "/user/login/", <<>>, CT_FORM, "username&password", NoCookie)
        EXCEPT !.at = t]

Outcome(kind, which, r, err) ==
    [kind |-> kind, which |-> which, status |-> r.status, cookie |-> r.cookie,
     error |-> err]

NoOutcome == Outcome("none", "", NoResponse, "")
Returned(which, r) == Outcome("response", which, r, "")
Raised(err) == Outcome("raise", "", NoResponse, err)

----------------------------------------------------------------------------
(* LuminosoAuth *)

(* A signing string that also covered the Cookie header of the request *)
signing_string_with_cookie(r, params, expiry, content_type, content_body) ==
    <<r.method, Host, r.path, ToStr(r.cookie.g), ToStr(r.cookie.r), ToStr(expiry)>>
    \o [i \in 1..Len(SortedKeys(params)) |->
          SortedKeys(params)[i] \o ": "
              \o js_compatible_quote(Get(params, SortedKeys(params)[i]))]

(* __signing_string: the lines of the signing string, before the join *)
signing_string(r, params, expiry, content_type, content_body) ==
    LET content_hash == IF content_type # CT_NONE
                        THEN content_hash_of(content_body) ELSE ""
        ctype == IF content_type # CT_NONE THEN content_type ELSE ""
        slashed == IF endswith_slash(r.path) THEN r.path ELSE r.path \o "/"
        pathstring == unquote(slashed)
        keys == SortedKeys(params)
    IN  <<r.method, Host, pathstring, content_hash, ctype, ToStr(expiry)>>
        \o [i \in 1..Len(keys) |->
              keys[i] \o ": " \o js_compatible_quote(Get(params, keys[i]))]

(* The exception __call__ raises on this request, or "none" *)
call_raises(r) ==
    CASE r.ctype \notin {CT_NONE, CT_FORM, CT_JSON}      -> "ValueError"
      [] r.ctype = CT_JSON /\ r.body = BODY_NONE         -> "TypeError"
      [] OTHER                                           -> "none"

(* prepare_cookies sets the Cookie header only if the request has none *)
prepare_cookies(r, c) ==
    IF r.cookie = NoCookie THEN [r EXCEPT !.cookie = c] ELSE r

(* "if 'Cookie' in req.headers: req.headers.pop('Cookie')" left out *)
pop_cookie_skipped(r) == r

(* lines 232-233 and 114-115: the Cookie header is removed *)
pop_cookie(r) == [r EXCEPT !.cookie = NoCookie]

(* "Remove auth fields" left out *)
remove_auth_fields_skipped(d) == d

(* The request parameters after "Remove auth fields" *)
remove_auth_fields(d) == DictPop(DictPop(d, "expires"), "sig")

(* The form branch had it not folded the body's fields in *)
signed_params_url_only(r, req_params) == req_params

(* The parameters that are signed: the URL parameters, and the form fields *)
(* of a form-encoded body                                                   *)
signed_params(r, req_params) ==
    IF r.ctype = CT_FORM
    THEN DictUpdate(req_params, ParseQs(FormFields(r.body)))
    ELSE req_params

(* __call__ of the authenticator a (named by), at time t, on request r *)
call(a, by, r, t) ==
    LET expiry == t + ValidityMs
        url_dict == ParseQs(r.query)
        req_params == remove_auth_fields(DictSet(url_dict, "key_id", a.key_id))
        params == signed_params(r, req_params)
        content_type == IF r.ctype = CT_FORM THEN CT_NONE ELSE r.ctype
        content_body == IF r.ctype = CT_JSON THEN r.body ELSE BODY_NONE
        signing_list == signing_string(r, params, expiry, content_type, content_body)
        sig == b64_hmac(a.secret, Join(signing_list))
        new_query == DictSet(DictSet(req_params, "expires", ToStr(expiry)), "sig", sig)
        signed == [r EXCEPT !.hooks = Append(@, by), !.query = new_query,
                            !.signing_list = signing_list, !.params = params,
                            !.at = t, !.by = by]
    IN  prepare_cookies(pop_cookie(signed), a.session_cookie)

(* login(): the attributes after the call and the exception it raised, for *)
(* an authenticator whose attributes were cur, given the server's reply    *)
(* and the number n of the session the server opened for it                *)
login(cur, reply, n) ==
    LET unauth == [cur EXCEPT !.session_auth = "None"]
    IN  CASE reply.status # 200 ->
               [unauth EXCEPT !.raised = "LuminosoLoginError"]
          [] reply.status = 200 /\ ~reply.cookie ->
               [unauth EXCEPT !.raised = "KeyError"]
          [] reply.status = 200 /\ reply.cookie /\ reply.body = "nokey" ->
               [unauth EXCEPT !.raised = "KeyError",
                              !.session_cookie = Cookie(n, 0)]
          [] reply.status = 200 /\ reply.cookie /\ reply.body = "nosecret" ->
               [unauth EXCEPT !.raised = "KeyError",
                              !.session_cookie = Cookie(n, 0),
                              !.key_id = KeyIdOf(n)]
          [] OTHER ->
               [unauth EXCEPT !.raised = "none",
                              !.session_cookie = Cookie(n, 0),
                              !.key_id = KeyIdOf(n),
                              !.secret = SecretOf(n),
                              !.session_auth = "self"]

AuthState(k, s, c, sa) ==
    [key_id |-> k, secret |-> s, session_cookie |-> c, session_auth |-> sa,
     raised |-> "none"]

(* no_retry_copy() had it passed auto_login on to the copy *)
no_retry_copy_auto_login(lr) ==
    [key_id |-> lr.key_id, secret |-> lr.secret,
     session_cookie |-> lr.session_cookie, auto_login |-> auto_login,
     made |-> TRUE]

(* no_retry_copy(): LuminosoAuth(..., auto_login=False), whose __init__    *)
(* logs in; lr is the result of that login                                  *)
no_retry_copy(lr) ==
    [key_id |-> lr.key_id, secret |-> lr.secret,
     session_cookie |-> lr.session_cookie, auto_login |-> FALSE, made |-> TRUE]

(* The relogin test had it left out self._auto_login *)
relogs_in_on_any_401(status, auto) == status = 401

(* A hook that took every error status for an expired session *)
relogs_in_on_any_error(status, auto) == status >= 400 /\ auto

(* __on_response, line 104-105: the response starts a relogin *)
relogs_in(status, auto) == status = 401 /\ auto

(* The success test had it accepted status 200 alone *)
retry_successful_200_only(new_result) == new_result = 200

(* __on_response, line 121: the replay counts as successful *)
retry_successful(new_result) == 200 <= new_result /\ new_result < 300

(* The commit had it left out line 126, the session cookie *)
commit_without_cookie(cur, retry) ==
    Creds(retry.key_id, retry.secret, cur.session_cookie)

(* __on_response, lines 124-126: the credentials after "Save the new      *)
(* credentials"                                                            *)
commit(cur, retry) == Creds(retry.key_id, retry.secret, retry.session_cookie)

(* __on_response, lines 134-137: the session cookie after the response *)
save_cookie(stored, response_cookie) ==
    IF response_cookie # NoCookie THEN response_cookie ELSE stored

(* deregister_hook: list.remove of the first occurrence *)
deregister_hook(hooks, h) ==
    IF \E i \in 1..Len(hooks) : hooks[i] = h
    THEN LET i == CHOOSE j \in 1..Len(hooks) :
                     hooks[j] = h /\ \A l \in 1..(j - 1) : hooks[l] # h
         IN  SubSeq(hooks, 1, i - 1) \o SubSeq(hooks, i + 1, Len(hooks))
    ELSE hooks

(* The response hooks of a request that start a relogin on this status *)
hook_relogs_in(hooks, status) ==
    \E i \in 1..Len(hooks) :
        \/ hooks[i] = "self" /\ relogs_in(status, auto_login)
        \/ hooks[i] = "retry" /\ relogs_in(status, retry_auth.auto_login)

----------------------------------------------------------------------------
(* The state after construction: __init__ has logged in, the server has     *)
(* opened session 1                                                         *)

AuthInitAs(auth) ==
    /\ key_id = KeyIdOf(1)
    /\ secret = SecretOf(1)
    /\ session_cookie = Cookie(1, 0)
    /\ auto_login \in BOOLEAN
    /\ session_auth = auth
    /\ retry_auth = NoAuth
    /\ pc = "idle"
    /\ req = NoRequest
    /\ resp = NoResponse
    /\ new_resp = NoResponse
    /\ outcome = NoOutcome
    /\ wire = <<>>
    /\ answers = <<>>
    /\ held = Creds(KeyIdOf(1), SecretOf(1), Cookie(1, 0))
    /\ old = Creds("", "", NoCookie)
    /\ pre = NoRequest
    /\ now = 0
    /\ logins = 1
    /\ ops = 0

AuthInit == AuthInitAs("self")

(* No signing comparison is set up *)
SignerIdle ==
    /\ sign_in = <<>>
    /\ sign_out = <<>>

(* No LuminosoClient has been made *)
ClientIdle ==
    /\ clients = <<>>
    /\ client_pc = "off"
    /\ client_op = <<>>
    /\ sent = <<>>
    /\ replies = <<>>
    /\ result = <<>>
    /\ sleeps = 0

(* The token file is not used *)
FilesIdle ==
    /\ token_file = <<>>
    /\ calls = <<>>

(* No command line program runs *)
CliIdle ==
    /\ cli_args = <<>>
    /\ cli_pc = "off"
    /\ cli_trace = <<>>
    /\ cli_status = -1

(* No upload runs *)
UploadIdle ==
    /\ up_args = <<>>
    /\ up_pc = "off"
    /\ up_sent = <<>>
    /\ up_replies = <<>>
    /\ up_result = <<>>

(* No second thread runs *)
ThreadsIdle ==
    /\ th_a = "off"
    /\ th_fresh = <<>>
    /\ th_b = "off"
    /\ th_local = <<>>
    /\ th_out = <<>>
    /\ th_steps = 0

MoreIdle == CliIdle /\ UploadIdle /\ ThreadsIdle

ExtraIdle == FilesIdle /\ MoreIdle

Init == AuthInit /\ SignerIdle /\ ClientIdle /\ ExtraIdle

Self == Creds(key_id, secret, session_cookie)

AtRest == pc \in {"idle", "done"}

(* session.request(...): prepare the request (session.auth attaches when   *)
(* it is set) and transmit it                                              *)
SendRequest(c) ==
    /\ AtRest
    /\ ops < MaxOps
    /\ ops' = ops + 1
    /\ pre' = c
    /\ resp' = NoResponse
    /\ new_resp' = NoResponse
    /\ retry_auth' = NoAuth
    /\ answers' = <<>>
    /\ IF session_auth = "self" /\ call_raises(c) # "none"
       THEN /\ req' = c
            /\ wire' = <<>>
            /\ outcome' = Raised(call_raises(c))
            /\ pc' = "done"
       ELSE /\ req' = IF session_auth = "self" THEN call(Self, "self", c, now) ELSE c
            /\ wire' = <<req'>>
            /\ outcome' = NoOutcome
            /\ pc' = "sent"
    /\ UNCHANGED <<key_id, secret, session_cookie, auto_login, session_auth,
                   held, old, now, logins>>
    /\ UNCHANGED <<signer_vars, client_vars, extra_vars>>

(* The first response arrives and the request's response hooks run:         *)
(* __on_response up to the login of no_retry_copy(), or to its end          *)
Respond(st, c) ==
    /\ pc = "sent"
    /\ resp' = Response(st, c)
    /\ answers' = Append(answers, st)
    /\ held' = Self
    /\ IF hook_relogs_in(req.hooks, st)
       THEN /\ Len(wire) < MaxWire
            /\ wire' = Append(wire, LoginMsg(now))
            /\ pc' = "login"
            /\ UNCHANGED <<session_cookie, outcome>>
       ELSE /\ session_cookie' = IF req.hooks # <<>>
                                 THEN save_cookie(session_cookie, c)
                                 ELSE session_cookie
            /\ outcome' = Returned("resp", resp')
            /\ pc' = "done"
            /\ UNCHANGED wire
    /\ UNCHANGED <<key_id, secret, auto_login, session_auth, retry_auth, req,
                   new_resp, old, pre, now, logins, ops>>
    /\ UNCHANGED <<signer_vars, client_vars, extra_vars>>

(* The login of no_retry_copy() is answered; if it succeeded the request is *)
(* re-authenticated by the copy and sent again (lines 108-117)              *)
LoginRespond(reply) ==
    /\ pc = "login"
    /\ answers' = Append(answers, reply.status)
    /\ logins' = IF reply.status = 200 THEN logins + 1 ELSE logins
    /\ LET lr == login(AuthState("", "", NoCookie, "None"), reply, logins + 1)
       IN  IF lr.raised # "none"
           THEN /\ outcome' = Raised(lr.raised)
                /\ pc' = "done"
                /\ UNCHANGED <<retry_auth, req, wire, pre>>
           ELSE /\ Len(wire) < MaxWire
                /\ retry_auth' = no_retry_copy(lr)
                /\ pre' = [req EXCEPT !.hooks = deregister_hook(@, "self")]
                /\ req' = prepare_cookies(
                              pop_cookie(call(retry_auth', "retry", pre', now)),
                              retry_auth'.session_cookie)
                /\ wire' = Append(wire, req')
                /\ pc' = "replay"
                /\ UNCHANGED outcome
    /\ UNCHANGED <<key_id, secret, session_cookie, auto_login, session_auth,
                   resp, new_resp, held, old, now, ops>>
    /\ UNCHANGED <<signer_vars, client_vars, extra_vars>>

(* The replay is answered: its hooks run inside retry_auth.session.send,    *)
(* then __on_response commits or gives up (lines 119-132)                   *)
ReplayRespond(st, c) ==
    /\ pc = "replay"
    /\ new_resp' = Response(st, c)
    /\ answers' = Append(answers, st)
    /\ IF hook_relogs_in(req.hooks, st)
       THEN /\ Len(wire) < MaxWire
            /\ wire' = Append(wire, LoginMsg(now))
            /\ pc' = "login"
            /\ UNCHANGED <<key_id, secret, session_cookie, retry_auth, outcome, old>>
       ELSE /\ retry_auth' =
                 [retry_auth EXCEPT !.session_cookie =
                     IF \E i \in 1..Len(req.hooks) : req.hooks[i] = "retry"
                     THEN save_cookie(@, c) ELSE @]
            /\ IF retry_successful(st)
               THEN /\ key_id' = commit(Self, retry_auth').key_id
                    /\ secret' = commit(Self, retry_auth').secret
                    /\ session_cookie' = commit(Self, retry_auth').session_cookie
                    /\ old' = Self
                    /\ outcome' = Returned("new_resp", new_resp')
               ELSE /\ outcome' = Returned("resp", resp)
                    /\ UNCHANGED <<key_id, secret, session_cookie, old>>
            /\ pc' = "done"
            /\ UNCHANGED wire
    /\ UNCHANGED <<auto_login, session_auth, req, resp, held, pre, now, logins, ops>>
    /\ UNCHANGED <<signer_vars, client_vars, extra_vars>>

(* login(username, password) called on the authenticator: the session's    *)
(* auth is cleared and the login request is sent                           *)
ExplicitLogin ==
    /\ AtRest
    /\ ops < MaxOps
    /\ ops' = ops + 1
    /\ session_auth' = "None"
    /\ wire' = <<LoginMsg(now)>>
    /\ answers' = <<>>
    /\ outcome' = NoOutcome
    /\ req' = NoRequest
    /\ pre' = NoRequest
    /\ resp' = NoResponse
    /\ new_resp' = NoResponse
    /\ retry_auth' = NoAuth
    /\ pc' = "xlogin"
    /\ UNCHANGED <<key_id, secret, session_cookie, auto_login, held, old, now, logins>>
    /\ UNCHANGED <<signer_vars, client_vars, extra_vars>>

(* ... and answered: the rest of login() *)
ExplicitLoginRespond(reply) ==
    /\ pc = "xlogin"
    /\ answers' = Append(answers, reply.status)
    /\ logins' = IF reply.status = 200 THEN logins + 1 ELSE logins
    /\ LET lr == login(AuthState(key_id, secret, session_cookie, session_auth),
                       reply, logins + 1)
       IN  /\ key_id' = lr.key_id
           /\ secret' = lr.secret
           /\ session_cookie' = lr.session_cookie
           /\ session_auth' = lr.session_auth
           /\ outcome' = IF lr.raised # "none" THEN Raised(lr.raised) ELSE NoOutcome
    /\ pc' = "idle"
    /\ UNCHANGED <<auto_login, retry_auth, req, resp, new_resp, wire, held, old,
                   pre, now, ops>>
    /\ UNCHANGED <<signer_vars, client_vars, extra_vars>>

(* Time passes *)
Tick ==
    /\ now < MaxNow
    /\ now' = now + 1
    /\ UNCHANGED <<key_id, secret, session_cookie, auto_login, session_auth,
                   retry_auth, pc, req, resp, new_resp, outcome, wire, answers,
                   held, old, pre, logins, ops>>
    /\ UNCHANGED <<signer_vars, client_vars, extra_vars>>

Next ==
    \/ \E c \in Calls : SendRequest(c)
    \/ \E st \in Statuses : \E c \in {NoCookie} \cup Rotations(req.cookie) : Respond(st, c)
    \/ \E reply \in LoginReplies : LoginRespond(reply)
    \/ \E st \in Statuses : \E c \in {NoCookie} \cup Rotations(req.cookie) : ReplayRespond(st, c)
    \/ ExplicitLogin
    \/ \E reply \in LoginReplies : ExplicitLoginRespond(reply)
    \/ Tick

Spec == Init /\ [][Next]_vars

----------------------------------------------------------------------------
(* The signer on its own: two authenticators attach to two requests and    *)
(* the signing strings and signatures are compared.                        *)

Job(a, r, t) == [a |-> a, r |-> r, t |-> t]

(* Query strings over the same keys in different orders, with a repeated   *)
(* key and with stale authentication parameters                            *)
SignQueries ==
    { <<>>,
      <<P("r", "a b")>>,
      <<P("q", "y"), P("r", "a b")>>,
      <<P("r", "a b"), P("q", "y")>>,
      <<P("sig", "oldsig"), P("r", "a b"), P("expires", "1"), P("q", "y"),
        P("q", "z")>> }

SignRequests ==
    { Request("GET", p, q, CT_NONE, BODY_NONE, c) :
        p \in {"/api/ping", "/api/docs/"}, q \in SignQueries,
        c \in {NoCookie, JarCookie} }
    \cup { Request("POST", "/api/ping", q, CT_NONE, BODY_NONE, NoCookie) :
             q \in SignQueries }
    \cup { Request("POST", "/api/ping", q, CT_FORM, "q=y", c) :
             q \in {<<>>, <<P("r", "a b")>>, <<P("r", "a b"), P("q", "y")>>},
             c \in {NoCookie, JarCookie} }
    \cup { Request("POST", "/api/ping", q, CT_JSON, "{doc}", NoCookie) :
             q \in {<<P("q", "y"), P("r", "a b")>>, <<P("r", "a b"), P("q", "y")>>} }

(* Authenticators: one session before and after a cookie rotation, and a   *)
(* second session                                                          *)
SignAuths ==
    { Creds(KeyIdOf(1), SecretOf(1), Cookie(1, 0)),
      Creds(KeyIdOf(1), SecretOf(1), Cookie(1, MaxRot)),
      Creds(KeyIdOf(2), SecretOf(2), Cookie(2, 0)) }

SignJobs == { Job(a, r, t) : a \in SignAuths, r \in SignRequests, t \in 0..MaxNow }

SignerInit ==
    /\ AuthInit
    /\ auto_login = TRUE
    /\ ClientIdle
    /\ ExtraIdle
    /\ sign_in \in SignJobs \X SignJobs
    /\ sign_out = <<>>

(* Both requests are prepared: prepare_auth calls the authenticator *)
Attach ==
    /\ sign_out = <<>>
    /\ sign_out' = [i \in 1..2 |->
                      call(sign_in[i].a, "self", sign_in[i].r, sign_in[i].t)]
    /\ UNCHANGED <<extra_vars, auth_vars, client_vars, sign_in>>

SignerNext == Attach

SpecSigner == SignerInit /\ [][SignerNext]_vars

----------------------------------------------------------------------------
(* luminoso_api/v5_client.py: LuminosoClient                                *)

(* A URL or a path is the sequence of its pieces: the scheme and host, the  *)
(* slashes and the names between them.                                      *)
Origin == "http://mock-api.localhost"

BASE_URL == <<Origin, "/", "api", "/", "v5", "/">>

PathTokens == {"/", "a"}

(* The path arguments the callers pass *)
Paths == UNION {[1..n -> PathTokens] : n \in 0..MaxPathLen}

(* url.rstrip('/') *)
RECURSIVE rstrip(_)
rstrip(url) ==
    IF url # <<>> /\ url[Len(url)] = "/"
    THEN rstrip(SubSeq(url, 1, Len(url) - 1))
    ELSE url

(* path.lstrip('/') *)
RECURSIVE lstrip(_)
lstrip(path) ==
    IF path # <<>> /\ Head(path) = "/" THEN lstrip(Tail(path)) ELSE path

(* path.startswith('/') *)
startswith_slash(path) == path # <<>> /\ Head(path) = "/"

ensure_trailing_slash(url) == Append(rstrip(url), "/")

(* '%s://%s/api/v5' % (parsed_url.scheme, parsed_url.netloc) *)
get_root_url(url) == <<Head(url), "/", "api", "/", "v5">>

(* timeout=None *)
NoTimeout == 0

Timeouts == {NoTimeout, 2}

(* requests.session() with session.auth = _TokenAuth(token) *)
Session(token) == [token |-> token]

(* LuminosoClient.__init__; parent and path record how the client was made *)
LuminosoClient(session, url, timeout) ==
    [session |-> session, timeout |-> timeout,
     url |-> ensure_trailing_slash(url), root_url |-> get_root_url(url),
     user_agent |-> "LuminosoClient/VERSION", parent |-> 0, path |-> <<>>]

(* A client_for_path that ignored the leading slash *)
client_for_path_always_relative(c, path) ==
    LuminosoClient(c.session, c.url \o path, NoTimeout)

client_for_path(c, path) ==
    LET url == IF startswith_slash(path) THEN c.root_url \o path
               ELSE c.url \o path
    IN  LuminosoClient(c.session, url, NoTimeout)

(* A call of a method of clients[i] *)
Op(name, i, path, params, wait_for_sentiment) ==
    [name |-> name, client |-> i, path |-> path, params |-> params,
     wait_for_sentiment |-> wait_for_sentiment]

NoOp == Op("", 0, <<>>, <<>>, FALSE)

(* The result of a client operation: kind is "none", "return" or "raise";   *)
(* value is what is returned, or the args of the exception.                 *)
Result(kind, error, value) == [kind |-> kind, error |-> error, value |-> value]

NoValue == [none |-> TRUE]

NoResult == Result("none", "", NoValue)

(* The URLs connect() is called with *)
ConnectUrls == {<<Origin>>, BASE_URL, BASE_URL \o <<"p">>}

(* The state after LuminosoClient.connect(url, token=token, timeout=timeout) *)
Connected(urls, timeouts) ==
    /\ \E url \in urls : \E timeout \in timeouts :
          clients = <<LuminosoClient(Session("fake"), url, timeout)>>
    /\ client_pc = "idle"
    /\ client_op = NoOp
    /\ sent = <<>>
    /\ replies = <<>>
    /\ result = NoResult
    /\ sleeps = 0

(* No method of a client is running *)
ClientAtRest == client_pc = "idle"

(* clients[i].client_for_path(path) *)
ClientForPath(i, path) ==
    /\ ClientAtRest
    /\ Len(clients) < MaxClients
    /\ clients' = Append(clients,
                     [client_for_path(clients[i], path)
                         EXCEPT !.parent = i, !.path = path])
    /\ UNCHANGED <<extra_vars, auth_vars, signer_vars, client_pc, client_op, sent, replies,
                   result, sleeps>>

PathsInit ==
    /\ AuthInit
    /\ auto_login = TRUE
    /\ SignerIdle
    /\ ExtraIdle
    /\ Connected(ConnectUrls, Timeouts)

PathsNext == \E i \in 1..Len(clients) : \E path \in Paths : ClientForPath(i, path)

SpecPaths == PathsInit /\ [][PathsNext]_vars

----------------------------------------------------------------------------
(* The verb methods and _request *)

(* A keyword argument's value: a str, an int, or another JSON value *)
Value(t, v) == [t |-> t, v |-> v]

(* json.dumps(value) of a keyword argument's value *)
json_dumps_value(value) ==
    CASE value.t = "str"  -> "\"" \o value.v \o "\""
      [] value.t = "list" -> "[" \o value.v \o "]"
      [] OTHER            -> value.v

jsonify_parameters(params) ==
    [i \in 1..Len(params) |->
        P(params[i].k,
          IF params[i].v.t \in {"int", "str"} THEN params[i].v
          ELSE Value("str", json_dumps_value(params[i].v)))]

(* The keyword parameters the callers pass *)
Keywords ==
    { <<>>,
      <<P("param", Value("str", "value"))>>,
      <<P("n", Value("int", "3")), P("ids", Value("list", "1, 2"))>> }

Verbs == {"get", "post", "put", "patch", "delete"}

VerbPaths == {<<>>, <<"a">>, <<"/", "a", "/">>}

(* What session.request is called with, after _request has set the user     *)
(* agent and the timeout and _TokenAuth has set the Authorization header:   *)
(* params is the query string, data the body (<<>> when there is none,      *)
(* <<d>> for json.dumps(d)).                                                *)
HttpRequest(c, method, url, params, data, content_type) ==
    [method |-> method, url |-> url, params |-> params, data |-> data,
     content_type |-> content_type, user_agent |-> c.user_agent,
     timeout |-> c.timeout, authorization |-> "Token " \o c.session.token]

(* A client whose every verb put the parameters in the query string *)
verb_request_query_only(c, verb, path, params) ==
    HttpRequest(c, verb, ensure_trailing_slash(c.url \o lstrip(path)),
                jsonify_parameters(params), <<>>, CT_NONE)

(* get, post, put, patch, delete: the request each of them makes *)
verb_request(c, verb, path, params) ==
    LET url == ensure_trailing_slash(c.url \o lstrip(path))
    IN  IF verb \in {"get", "delete"}
        THEN HttpRequest(c, verb, url, jsonify_parameters(params), <<>>, CT_NONE)
        ELSE HttpRequest(c, verb, url, <<>>, <<params>>, CT_JSON)

(* The statuses the server answers with *)
ClientStatuses == {200, 400, 401, 403, 404, 405, 409, 500, 503}

(* What comes back from session.request: an HTTP response, whose body is    *)
(* JSON or not and, for a project, holds last_build_info; or an exception   *)
(* of the transport.                                                        *)
Reply(kind, status, json, info) ==
    [kind |-> kind, status |-> status, json |-> json, info |-> info]

(* Response.raise_for_status() raises HTTPError *)
raises_for_status(status) == 400 <= status /\ status < 600

(* An error mapping that took every 4xx for an authentication failure *)
error_class_auth_for_4xx(status) ==
    CASE status < 500 -> "LuminosoAuthError"
      [] OTHER        -> "LuminosoServerError"

(* An error mapping whose server errors began above 500 *)
error_class_server_above_500(status) ==
    CASE status \in {401, 403}      -> "LuminosoAuthError"
      [] status \in {400, 404, 405} -> "LuminosoClientError"
      [] status > 500               -> "LuminosoServerError"
      [] OTHER                      -> "LuminosoError"

(* The exception class for an error status (lines 229-236) *)
error_class(status) ==
    CASE status \in {401, 403}      -> "LuminosoAuthError"
      [] status \in {400, 404, 405} -> "LuminosoClientError"
      [] status >= 500              -> "LuminosoServerError"
      [] OTHER                      -> "LuminosoError"

(* A _request without its "except requests.Timeout" clause *)
request_result_raw_timeout(reply) ==
    CASE reply.kind # "response"         -> Result("raise", reply.kind, NoValue)
      [] raises_for_status(reply.status) ->
             Result("raise", error_class(reply.status), reply)
      [] OTHER                           -> Result("return", "", reply)

(* _request: the response, or the exception raised *)
request_result(reply) ==
    CASE reply.kind = "requests.Timeout" ->
             Result("raise", "LuminosoTimeoutError", NoValue)
      [] reply.kind = "requests.ConnectionError" ->
             Result("raise", "requests.ConnectionError", NoValue)
      [] raises_for_status(reply.status) ->
             Result("raise", error_class(reply.status), reply)
      [] OTHER -> Result("return", "", reply)

(* _json_request *)
json_request_result(reply) ==
    LET r == request_result(reply)
    IN  IF r.kind = "return" /\ ~reply.json
        THEN Result("raise", "LuminosoError", NoValue)
        ELSE r

----------------------------------------------------------------------------
(* wait_for_build and wait_for_sentiment_build *)

(* A build record: empty ({}), or with a stop_time that is set or not and   *)
(* the success flag                                                         *)
Build(stop_time, success) ==
    [empty |-> FALSE, stop_time |-> stop_time, success |-> success]

EmptyBuild == [empty |-> TRUE, stop_time |-> FALSE, success |-> FALSE]

(* running, failed, succeeded *)
BuildStates == {Build(FALSE, FALSE), Build(TRUE, FALSE), Build(TRUE, TRUE)}

(* last_build_info: the base build's record with the sentiment build's *)
Info(b, s) ==
    [empty |-> b.empty, stop_time |-> b.stop_time, success |-> b.success,
     sentiment |-> s]

EmptyInfo == Info(EmptyBuild, EmptyBuild)

BuildInfos ==
    {EmptyInfo} \cup {Info(b, s) : b \in BuildStates, s \in BuildStates \cup {EmptyBuild}}

Message(text) == [message |-> text]

(* A completion check that did not look at the success flag *)
check_for_completion_any_stop(status) ==
    IF status.stop_time THEN "True" ELSE "False"

(* _check_for_completion: "True", "False", or "raise" for LuminosoError *)
check_for_completion(status) ==
    IF status.stop_time
    THEN IF status.success THEN "True" ELSE "raise"
    ELSE "False"

(* The completion test had it looked at the base build only *)
completion_base_only(response, wait_for_sentiment) ==
    check_for_completion(response)

(* lines 412-414: the value of the condition, or "raise" *)
completion(response, wait_for_sentiment) ==
    CASE check_for_completion(response) # "True" -> check_for_completion(response)
      [] ~wait_for_sentiment                     -> "True"
      [] OTHER -> check_for_completion(response.sentiment)

(* A loop body without the test for an empty last_build_info *)
wait_step_no_empty_test(response, wait_for_sentiment) ==
    CASE completion(response, wait_for_sentiment) = "raise" ->
             Result("raise", "LuminosoError", response)
      [] completion(response, wait_for_sentiment) = "True" ->
             Result("return", "", response)
      [] OTHER -> Result("continue", "", NoValue)

(* One pass of the loop of _wait_for_build on a poll's last_build_info:    *)
(* the result, or "continue" when the loop goes on to sleep and poll again  *)
wait_step(response, wait_for_sentiment) ==
    CASE response.empty ->
             Result("raise", "ValueError", Message("This project is not building!"))
      [] ~response.empty /\ wait_for_sentiment /\ response.sentiment.empty ->
             Result("raise", "ValueError",
                    Message("This project is not building sentiment!"))
      [] OTHER ->
             CASE completion(response, wait_for_sentiment) = "raise" ->
                      Result("raise", "LuminosoError", response)
               [] completion(response, wait_for_sentiment) = "True" ->
                      Result("return", "", response)
               [] OTHER -> Result("continue", "", NoValue)

----------------------------------------------------------------------------
(* The operations of a client *)

(* clients[i].<verb>(path, **params), up to the blocking HTTP call *)
Verb(i, verb, path, params) ==
    /\ ClientAtRest
    /\ client_op' = Op(verb, i, path, params, FALSE)
    /\ sent' = <<verb_request(clients[i], verb, path, params)>>
    /\ replies' = <<>>
    /\ result' = NoResult
    /\ sleeps' = 0
    /\ client_pc' = "wait"
    /\ UNCHANGED <<extra_vars, auth_vars, signer_vars, clients>>

(* clients[i].wait_for_build() or .wait_for_sentiment_build(), up to the    *)
(* first poll                                                               *)
WaitForBuild(i, wait_for_sentiment) ==
    /\ ClientAtRest
    /\ client_op' = Op("wait_for_build", i, <<>>, <<>>, wait_for_sentiment)
    /\ sent' = <<verb_request(clients[i], "get", <<>>, <<>>)>>
    /\ replies' = <<>>
    /\ result' = NoResult
    /\ sleeps' = 0
    /\ client_pc' = "wait"
    /\ UNCHANGED <<extra_vars, auth_vars, signer_vars, clients>>

(* session.request comes back with reply; the rest of the verb method, and  *)
(* of the pass of the polling loop that called it                           *)
Receive(reply) ==
    /\ client_pc = "wait"
    /\ replies' = Append(replies, reply)
    /\ LET got == json_request_result(reply)
           step == IF got.kind = "raise" \/ client_op.name \in Verbs
                   THEN got
                   ELSE wait_step(reply.info, client_op.wait_for_sentiment)
       IN  IF step.kind = "continue"
           THEN /\ Len(sent) < MaxPolls
                /\ sleeps' = sleeps + 1
                /\ sent' = Append(sent, verb_request(clients[client_op.client],
                                                     "get", client_op.path, <<>>))
                /\ UNCHANGED <<client_pc, result>>
           ELSE /\ result' = step
                /\ client_pc' = "done"
                /\ UNCHANGED <<sent, sleeps>>
    /\ UNCHANGED <<extra_vars, auth_vars, signer_vars, clients, client_op>>

(* The method returns or raises: its caller has the result *)
Return ==
    /\ client_pc = "done"
    /\ client_pc' = "idle"
    /\ client_op' = NoOp
    /\ sent' = <<>>
    /\ replies' = <<>>
    /\ result' = NoResult
    /\ sleeps' = 0
    /\ UNCHANGED <<extra_vars, auth_vars, signer_vars, clients>>

(* The answers of the server to the request in flight *)
Responses ==
    IF client_op.name \in Verbs
    THEN {Reply("response", st, js, EmptyInfo) : st \in ClientStatuses, js \in BOOLEAN}
    ELSE {Reply("response", 200, TRUE, info) : info \in BuildInfos}
         \cup {Reply("response", 200, FALSE, EmptyInfo),
               Reply("response", 503, TRUE, EmptyInfo)}

(* No answer came within the timeout the request was sent with *)
TimeOut ==
    /\ client_pc = "wait"
    /\ sent[Len(sent)].timeout # NoTimeout
    /\ Receive(Reply("requests.Timeout", 0, FALSE, EmptyInfo))

(* The connection failed *)
ConnectionFails ==
    /\ client_pc = "wait"
    /\ Receive(Reply("requests.ConnectionError", 0, FALSE, EmptyInfo))

ClientInit ==
    /\ AuthInit
    /\ auto_login = TRUE
    /\ SignerIdle
    /\ ExtraIdle
    /\ Connected({BASE_URL}, Timeouts)

ClientNext ==
    \/ \E i \in 1..Len(clients) : ClientForPath(i, <<"a">>)
    \/ \E i \in 1..Len(clients) : \E verb \in Verbs :
          \E path \in VerbPaths : \E params \in Keywords : Verb(i, verb, path, params)
    \/ \E i \in 1..Len(clients) : \E s \in BOOLEAN : WaitForBuild(i, s)
    \/ \E reply \in Responses : Receive(reply)
    \/ TimeOut
    \/ ConnectionFails
    \/ Return

SpecClient == ClientInit /\ [][ClientNext]_vars

----------------------------------------------------------------------------
(* LuminosoClient.connect and LuminosoClient.save_token with the token file *)

Daylight == "daylight.luminoso.com"
Analytics == "analytics.luminoso.com"
Localhost == "mock-api.localhost"

Domains == {Daylight, Analytics, Localhost}

(* urlparse(...).netloc of a URL that begins with this scheme and host; ""  *)
(* for a piece that is no scheme and host                                   *)
netloc(piece) ==
    CASE piece = "https://daylight.luminoso.com"  -> Daylight
      [] piece = "https://analytics.luminoso.com" -> Analytics
      [] piece = Origin                           -> Localhost
      [] OTHER                                    -> ""

(* url.startswith('http'), and '://' in domain *)
has_scheme(url) == url # <<>> /\ netloc(Head(url)) # ""

(* The default the docstring of connect() names *)
URL_BASE == <<"https://daylight.luminoso.com", "/", "api", "/", "v5">>

(* token=None, and a domain without an entry in the file *)
NoToken == ""

Tokens == {"t1", "t2"}

TokenFile(exists, tokens) == [exists |-> exists, tokens |-> tokens]

NoEntries == [d \in Domains |-> NoToken]

MissingFile == TokenFile(FALSE, NoEntries)

(* netloc.replace('daylight', 'analytics') *)
legacy_netloc(d) == IF d = Daylight THEN Analytics ELSE d

(* The domain save_token stores under, for its domain argument *)
saved_domain(domain) ==
    IF has_scheme(domain) THEN netloc(Head(domain)) ELSE Head(domain)

(* A save_token that started from an empty dictionary *)
save_token_fresh_file(file, token, domain) ==
    TokenFile(TRUE, [NoEntries EXCEPT ![saved_domain(domain)] = token])

(* save_token(token, domain, token_file) with a token: the file afterwards *)
save_token(file, token, domain) ==
    TokenFile(TRUE, [file.tokens EXCEPT ![saved_domain(domain)] = token])

(* What save_token does to the file: it is read if it exists, and written *)
save_token_log(file) == IF file.exists THEN <<"read", "write">> ELSE <<"write">>

(* lines 96-103: the url and the root_url connect() works with *)
connect_url(url) ==
    IF has_scheme(url) THEN url ELSE URL_BASE \o <<"/">> \o lstrip(url)

connect_root_url(url) ==
    IF has_scheme(url) THEN get_root_url(url) ELSE URL_BASE

Resolved(token, raised, file, log) ==
    [token |-> token, raised |-> raised, file |-> file, log |-> log]

(* A resolution that used the legacy domain's token without saving it *)
resolve_token_legacy_unsaved(file, url, token) ==
    LET d == netloc(Head(connect_root_url(url)))
    IN  CASE token # NoToken -> Resolved(token, "", file, <<>>)
          [] token = NoToken /\ ~file.exists ->
                 Resolved(NoToken, "LuminosoAuthError", file, <<>>)
          [] token = NoToken /\ file.exists /\ file.tokens[d] # NoToken ->
                 Resolved(file.tokens[d], "", file, <<"read">>)
          [] token = NoToken /\ file.exists /\ file.tokens[d] = NoToken
                 /\ file.tokens[legacy_netloc(d)] # NoToken ->
                 Resolved(file.tokens[legacy_netloc(d)], "", file, <<"read">>)
          [] OTHER -> Resolved(NoToken, "LuminosoAuthError", file, <<"read">>)

(* lines 105-128: the token connect() uses or the exception it raises, the *)
(* file afterwards, and the reads and writes of the file                   *)
resolve_token(file, url, token) ==
    LET d == netloc(Head(connect_root_url(url)))
    IN  CASE token # NoToken -> Resolved(token, "", file, <<>>)
          [] token = NoToken /\ ~file.exists ->
                 Resolved(NoToken, "LuminosoAuthError", file, <<>>)
          [] token = NoToken /\ file.exists /\ file.tokens[d] # NoToken ->
                 Resolved(file.tokens[d], "", file, <<"read">>)
          [] token = NoToken /\ file.exists /\ file.tokens[d] = NoToken
                 /\ file.tokens[legacy_netloc(d)] # NoToken ->
                 Resolved(file.tokens[legacy_netloc(d)], "",
                          save_token(file, file.tokens[legacy_netloc(d)], <<d>>),
                          <<"read">> \o save_token_log(file))
          [] OTHER -> Resolved(NoToken, "LuminosoAuthError", file, <<"read">>)

(* A call of connect() or save_token(): its arguments, the file before and *)
(* after, what it did to the file, the exception raised and the token of   *)
(* the client returned                                                     *)
Call(name, where, token, before, after, log, raised, made) ==
    [name |-> name, where |-> where, token |-> token, before |-> before,
     after |-> after, log |-> log, raised |-> raised, made |-> made]

(* The urls connect() is called with: a project on each host, a bare host, *)
(* and a path without scheme and host                                      *)
TokenUrls ==
    { <<"https://daylight.luminoso.com", "/", "api", "/", "v5", "/", "p">>,
      <<"https://analytics.luminoso.com", "/">>,
      BASE_URL,
      <<"/", "p">> }

(* The domain arguments of save_token: a domain, a domain with a path, a url *)
TokenDomains ==
    { <<Daylight>>, <<Analytics>>, <<Localhost, "/", "api", "/", "v5">>,
      <<"https://daylight.luminoso.com", "/">>, <<Origin, "/">> }

(* The token files found at the start *)
TokenFiles ==
    { MissingFile,
      TokenFile(TRUE, NoEntries),
      TokenFile(TRUE, [NoEntries EXCEPT ![Analytics] = "t0"]),
      TokenFile(TRUE, [NoEntries EXCEPT ![Daylight] = "t0", ![Localhost] = "t0"]) }

(* LuminosoClient.connect(url, token_file=..., token=token) *)
Connect(url, token) ==
    /\ Len(calls) < MaxCalls
    /\ LET r == resolve_token(token_file, url, token)
       IN  /\ token_file' = r.file
           /\ calls' = Append(calls, Call("connect", url, token, token_file,
                                          r.file, r.log, r.raised, r.token))
           /\ clients' = IF r.raised = "" 
                         THEN Append(clients,
                                     LuminosoClient(Session(r.token),
                                                    connect_url(url), NoTimeout))
                         ELSE clients
    /\ UNCHANGED <<auth_vars, signer_vars, client_pc, client_op, sent, replies,
                   result, sleeps, more_vars>>

(* LuminosoClient.save_token(token, domain=domain, token_file=...) *)
SaveToken(token, domain) ==
    /\ Len(calls) < MaxCalls
    /\ token_file' = save_token(token_file, token, domain)
    /\ calls' = Append(calls, Call("save_token", domain, token, token_file,
                                   token_file', save_token_log(token_file),
                                   "", NoToken))
    /\ UNCHANGED <<auth_vars, signer_vars, client_vars, more_vars>>

TokensInit ==
    /\ AuthInit
    /\ auto_login = TRUE
    /\ SignerIdle
    /\ clients = <<>>
    /\ client_pc = "idle"
    /\ client_op = NoOp
    /\ sent = <<>>
    /\ replies = <<>>
    /\ result = NoResult
    /\ sleeps = 0
    /\ token_file \in TokenFiles
    /\ calls = <<>>
    /\ MoreIdle

TokensNext ==
    \/ \E url \in TokenUrls : \E token \in Tokens \cup {NoToken} : Connect(url, token)
    \/ \E token \in Tokens : \E domain \in TokenDomains : SaveToken(token, domain)

SpecTokens == TokensInit /\ [][TokensNext]_vars

----------------------------------------------------------------------------
(* lumi-api, the command line program of cli.py and of v5_cli.py *)

Programs == {"cli", "v5_cli"}

(* A JSON text given in a file or with -j: none given, text that is not    *)
(* JSON, a JSON list, or a JSON object                                     *)
Json(kind, object) == [kind |-> kind, object |-> object]

NoJson == Json("none", <<>>)

RECURSIVE Concat(_)
Concat(pieces) ==
    IF pieces = <<>> THEN "" ELSE Head(pieces) \o Concat(Tail(pieces))

(* p.split('=', 1) of a -p argument given as its pieces, "=" being a piece *)
split_eq(p) ==
    IF \E i \in 1..Len(p) : p[i] = "="
    THEN LET i == CHOOSE i \in 1..Len(p) :
                      p[i] = "=" /\ \A j \in 1..(i - 1) : p[j] # "="
         IN  <<Concat(SubSeq(p, 1, i - 1)), Concat(SubSeq(p, i + 1, Len(p)))>>
    ELSE <<Concat(p)>>

(* {p.split('=', 1)[0]: p.split('=', 1)[1] for p in p_params} *)
RECURSIVE p_dict(_)
p_dict(p_params) ==
    IF p_params = <<>> THEN <<>>
    ELSE LET n    == Len(p_params)
             last == split_eq(p_params[n])
         IN  DictSet(p_dict(SubSeq(p_params, 1, n - 1)),
                     last[1], Value("str", last[2]))

Params(raised, params) == [raised |-> raised, params |-> params]

(* What params.update(json.load(...)) does to params, or the exception *)
update_from_json(r, json) ==
    CASE r.raised # ""         -> r
      [] json.kind = "none"    -> r
      [] json.kind = "invalid" -> Params("ValueError", r.params)
      [] json.kind = "list"    -> Params("TypeError", r.params)
      [] OTHER                 -> Params("", DictUpdate(r.params, json.object))

update_from_p(r, p_params) ==
    CASE r.raised # "" -> r
      [] \E i \in 1..Len(p_params) : Len(split_eq(p_params[i])) < 2 ->
             Params("ValueError", r.params)
      [] OTHER -> Params("", DictUpdate(r.params, p_dict(p_params)))

(* A _read_params that merges the -j object over the -p options *)
_read_params_json_last(input_file, json_body, p_params) ==
    update_from_json(
        update_from_p(update_from_json(Params("", <<>>), input_file), p_params),
        json_body)

(* _read_params: the file, then -j, then the -p options *)
_read_params(input_file, json_body, p_params) ==
    update_from_p(
        update_from_json(update_from_json(Params("", <<>>), input_file),
                         json_body),
        p_params)

(* The parsed command line *)
Args(program, method, token, save, csv, input_file, json_body, param) ==
    [program |-> program, method |-> method, path |-> "projects",
     token |-> token, save_token |-> save, csv |-> csv,
     input_file |-> input_file, json_body |-> json_body, param |-> param]

(* What lumi-api does that others see: a class method or a verb method it  *)
(* calls, or a prompt it shows and the answer it reads                     *)
Event(ev, a, b, params) == [ev |-> ev, a |-> a, b |-> b, params |-> params]

Accepting == {"", "y", "Y"}

Answers == Accepting \cup {"n", "yes"}

InputFiles ==
    { NoJson,
      Json("invalid", <<>>),
      Json("object", <<P("one", Value("int", "1")), P("two", Value("int", "2")),
                       P("three", Value("int", "3"))>>) }

JsonBodies ==
    { NoJson,
      Json("list", <<>>),
      Json("object", <<P("one", Value("str", "once")),
                       P("two", Value("str", "too"))>>),
      Json("object", <<P("four", Value("str", "fourth"))>>) }

(* The -p options: key=value, a value holding '=', a key given twice with  *)
(* another value, and an option without '='                                *)
ParamOptions ==
    { <<"one", "=", "\"won\"">>,
      <<"one", "=", "1">>,
      <<"five", "=", "a", "=", "b">>,
      <<"six">> }

ParamLists == UNION { [1..n -> ParamOptions] : n \in 0..MaxParams }

(* How connecting ends: cli.py connects; v5_cli.py connects and then tests *)
(* the token with client.get('/projects')                                  *)
ConnectOutcomes(program) ==
    IF program = "cli" THEN {"ok", "connect:LuminosoAuthError"}
    ELSE {"ok", "connect:LuminosoAuthError", "get:LuminosoAuthError",
          "get:LuminosoServerError"}

(* What the verb method returns or raises *)
VerbOutcomes == {"dict", "list", "LuminosoError"}

Exit(status) ==
    /\ cli_pc' = "exit"
    /\ cli_status' = status

(* A lumi-api that goes on to the call whatever the verb *)
Connected_pc_unconfirmed(args) == "call"

(* After connecting: the confirmation of a delete, or the call *)
Connected_pc(args) == IF args.method = "delete" THEN "confirm" ELSE "call"

(* v5_cli.py lines 116-118 *)
connect_again(trace, token, save) ==
    (IF token # NoToken /\ save
     THEN Append(trace, Event("save_token", token, "netloc", <<>>))
     ELSE trace) \o <<Event("connect", token, "", <<>>)>>

(* cli.py lines 92-98; v5_cli.py lines 158 and 79-94, 116-118 *)
CliConnect(o) ==
    /\ cli_pc = "start"
    /\ o \in ConnectOutcomes(cli_args.program)
    /\ IF cli_args.program = "cli"
       THEN IF cli_args.save_token /\ cli_args.token = NoToken
            THEN /\ o = "ok"
                 /\ Exit(1)
                 /\ UNCHANGED <<cli_trace>>
            ELSE /\ cli_trace' =
                        (IF cli_args.save_token
                         THEN <<Event("save_token", cli_args.token, "netloc", <<>>)>>
                         ELSE <<>>)
                        \o <<Event("connect", cli_args.token, "", <<>>)>>
                 /\ IF o = "ok"
                    THEN cli_pc' = Connected_pc(cli_args) /\ UNCHANGED cli_status
                    ELSE Exit(1)
       ELSE LET first == <<Event("connect", cli_args.token, "", <<>>)>>
                         \o (IF o = "connect:LuminosoAuthError" THEN <<>>
                             ELSE <<Event("call", "get", "/projects", <<>>)>>)
            IN  CASE o = "ok" ->
                       /\ cli_trace' = connect_again(first, cli_args.token,
                                                     cli_args.save_token)
                       /\ cli_pc' = Connected_pc(cli_args)
                       /\ UNCHANGED cli_status
                  [] o = "get:LuminosoServerError" ->
                       /\ cli_trace' = first
                       /\ Exit(1)
                  [] OTHER ->
                       /\ cli_trace' = first
                       /\ IF cli_args.token # NoToken
                          THEN Exit(1)
                          ELSE cli_pc' = "ask_token" /\ UNCHANGED cli_status
    /\ UNCHANGED <<cli_args, not_cli_vars>>

(* v5_cli.py lines 103-106, and 116-118 when -s was given *)
CliEnterToken(answer) ==
    /\ cli_pc = "ask_token"
    /\ LET asked == Append(cli_trace, Event("input", "token", answer, <<>>))
       IN  CASE answer = NoToken ->
                    /\ cli_trace' = asked
                    /\ Exit(0)
                    /\ UNCHANGED cli_args
             [] answer # NoToken /\ cli_args.save_token ->
                    /\ cli_trace' = connect_again(asked, answer, TRUE)
                    /\ cli_args' = [cli_args EXCEPT !.token = answer]
                    /\ cli_pc' = Connected_pc(cli_args)
                    /\ UNCHANGED cli_status
             [] OTHER ->
                    /\ cli_trace' = asked
                    /\ cli_args' = [cli_args EXCEPT !.token = answer]
                    /\ cli_pc' = "ask_save"
                    /\ UNCHANGED cli_status
    /\ UNCHANGED not_cli_vars

(* v5_cli.py lines 108-118 *)
CliAskSave(answer) ==
    /\ cli_pc = "ask_save"
    /\ cli_trace' = connect_again(
                        Append(cli_trace, Event("input", "save", answer, <<>>)),
                        cli_args.token, answer \in Accepting)
    /\ cli_args' = [cli_args EXCEPT !.save_token = answer \in Accepting]
    /\ cli_pc' = Connected_pc(cli_args)
    /\ UNCHANGED <<cli_status, not_cli_vars>>

(* cli.py lines 100-103; v5_cli.py lines 160-163 *)
CliConfirm(answer) ==
    /\ cli_pc = "confirm"
    /\ cli_trace' = Append(cli_trace, Event("input", "confirm", answer, <<>>))
    /\ IF answer \in Accepting
       THEN cli_pc' = "call" /\ UNCHANGED cli_status
       ELSE Exit(0)
    /\ UNCHANGED <<cli_args, not_cli_vars>>

(* cli.py lines 105-115; v5_cli.py lines 165-172 *)
CliCall(o) ==
    /\ cli_pc = "call"
    /\ LET r == _read_params(cli_args.input_file, cli_args.json_body,
                             cli_args.param)
       IN  IF r.raised # ""
           THEN /\ Exit(1)
                /\ UNCHANGED cli_trace
           ELSE /\ cli_trace' = Append(cli_trace,
                                       Event("call", cli_args.method,
                                             cli_args.path, r.params))
                /\ Exit(IF o = "LuminosoError" \/ (cli_args.csv /\ o # "list")
                        THEN 1 ELSE 0)
    /\ UNCHANGED <<cli_args, not_cli_vars>>

CliInit ==
    /\ AuthInit
    /\ auto_login = TRUE
    /\ SignerIdle
    /\ ClientIdle
    /\ FilesIdle
    /\ UploadIdle
    /\ ThreadsIdle
    /\ cli_args \in { Args(program, method, token, save, csv,
                           input_file, json_body, param) :
                        program \in Programs, method \in Verbs,
                        token \in {NoToken, "t1"}, save \in BOOLEAN,
                        csv \in BOOLEAN, input_file \in InputFiles,
                        json_body \in JsonBodies, param \in ParamLists }
    /\ cli_pc = "start"
    /\ cli_trace = <<>>
    /\ cli_status = -1

CliNext ==
    \/ \E o \in ConnectOutcomes("v5_cli") : CliConnect(o)
    \/ \E answer \in {NoToken, "t2"} : CliEnterToken(answer)
    \/ \E answer \in Answers : CliAskSave(answer)
    \/ \E answer \in Answers : CliConfirm(answer)
    \/ \E o \in VerbOutcomes : CliCall(o)

SpecCli == CliInit /\ [][CliNext]_vars

----------------------------------------------------------------------------
(* upload_project of v5_upload.py *)

(* A document, by the fields it has *)
Doc(title, metadata) == [title |-> title, text |-> "text", metadata |-> metadata]

Docs == {Doc("Document 1", TRUE), Doc("Document 2", FALSE)}

DocLists == UNION { [1..n -> Docs] : n \in 0..MaxDocs }

UploadArgs(name, language, docs, progress) ==
    [name |-> name, language |-> language, docs |-> docs, progress |-> progress]

(* line 50: client.post('projects', name=..., language=..., description=...) *)
create_request(c, args) ==
    verb_request(c, "post", <<"projects">>,
                 <<P("name", Value("str", args.name)),
                   P("language", Value("str", args.language)),
                   P("description", Value("str", "Uploaded using lumi-upload"))>>)

(* lines 50-66 after the answer to the creating POST: an error of the POST *)
(* is raised; otherwise the sub-client is made and line 59 evaluates the   *)
(* name batches, which the module does not define (it defines _batches),   *)
(* so that NameError is raised before any document is sent; with progress  *)
(* the finally clause then calls close() on the tuple of line 55, and      *)
(* AttributeError is raised in its place.                                  *)
after_create(args, created) ==
    CASE created.kind = "raise" -> created
      [] args.progress          -> Result("raise", "AttributeError", NoValue)
      [] OTHER                  -> Result("raise", "NameError", NoValue)

(* upload_project(client, name, language, docs, progress), up to the answer *)
(* to its first request                                                     *)
UploadProject ==
    /\ up_pc = "start"
    /\ up_sent' = <<create_request(LuminosoClient(Session("fake"), BASE_URL,
                                                  NoTimeout), up_args)>>
    /\ up_pc' = "wait"
    /\ UNCHANGED <<up_args, up_replies, up_result, not_upload_vars>>

(* The creating POST is answered; the rest of upload_project *)
UploadCreated(reply) ==
    /\ up_pc = "wait"
    /\ up_replies' = Append(up_replies, reply)
    /\ up_result' = after_create(up_args, json_request_result(reply))
    /\ up_pc' = "done"
    /\ UNCHANGED <<up_args, up_sent, not_upload_vars>>

UploadInit ==
    /\ AuthInit
    /\ auto_login = TRUE
    /\ SignerIdle
    /\ ClientIdle
    /\ FilesIdle
    /\ CliIdle
    /\ ThreadsIdle
    /\ up_args \in { UploadArgs("Projet test", language, docs, progress) :
                        language \in {"fr", "en"}, docs \in DocLists,
                        progress \in BOOLEAN }
    /\ up_pc = "start"
    /\ up_sent = <<>>
    /\ up_replies = <<>>
    /\ up_result = NoResult

UploadNext ==
    \/ UploadProject
    \/ \E st \in ClientStatuses : \E js \in BOOLEAN :
          UploadCreated(Reply("response", st, js, EmptyInfo))

SpecUpload == UploadInit /\ [][UploadNext]_vars

----------------------------------------------------------------------------
(* The two modes of authentication: a session whose auth is the signing    *)
(* LuminosoAuth, and a session whose auth is the _TokenAuth of v5_client   *)

(* The statuses the server answers with, 403 among them *)
ModeStatuses == {200, 401, 403, 500}

ModeCalls ==
    { Request("GET", "/api/ping", <<>>, CT_NONE, BODY_NONE, NoCookie),
      Request("POST", "/api/a%20b/", <<>>, CT_FORM, "q=y", JarCookie) }

(* _TokenAuth.__call__: the Authorization header is set; no parameter is   *)
(* added, nothing is signed and no response hook is registered             *)
token_call(r) == [r EXCEPT !.by = "token"]

(* session.request(...) on a session whose auth is a _TokenAuth *)
TokenSend(c) ==
    /\ AtRest
    /\ session_auth = "token"
    /\ ops < MaxOps
    /\ ops' = ops + 1
    /\ pre' = c
    /\ resp' = NoResponse
    /\ new_resp' = NoResponse
    /\ retry_auth' = NoAuth
    /\ answers' = <<>>
    /\ req' = token_call(c)
    /\ wire' = <<req'>>
    /\ outcome' = NoOutcome
    /\ pc' = "sent"
    /\ UNCHANGED <<key_id, secret, session_cookie, auto_login, session_auth,
                   held, old, now, logins>>
    /\ UNCHANGED <<signer_vars, client_vars, extra_vars>>

ModesInit ==
    /\ \E auth \in {"self", "token"} : AuthInitAs(auth)
    /\ SignerIdle
    /\ ClientIdle
    /\ ExtraIdle

ModesNext ==
    \/ \E c \in ModeCalls : session_auth = "self" /\ SendRequest(c)
    \/ \E c \in ModeCalls : TokenSend(c)
    \/ \E st \in ModeStatuses : \E c \in {NoCookie} \cup Rotations(req.cookie) :
          Respond(st, c)
    \/ \E reply \in LoginReplies : LoginRespond(reply)
    \/ \E st \in ModeStatuses : \E c \in {NoCookie} \cup Rotations(req.cookie) :
          ReplayRespond(st, c)
    \/ Tick

SpecModes == ModesInit /\ [][ModesNext]_vars

----------------------------------------------------------------------------
(* Two threads that share one LuminosoAuth without a lock: thread A runs   *)
(* __on_response on a 401 and commits the fresh credentials (lines         *)
(* 124-126), thread B runs __call__ on a request of its own (lines         *)
(* 181-236). The interpreter may switch threads between any two            *)
(* statements, so each assignment of the commit and each read of an        *)
(* attribute in __call__ is a step of its own.                             *)

CommitFields == <<"key_id", "secret", "session_cookie">>

(* The credentials login number n gives *)
CredsOf(n) == Creds(KeyIdOf(n), SecretOf(n), Cookie(n, 0))

(* A commit whose second assignment is missing *)
commit_field_without_secret(stored, fresh, field) ==
    CASE field = "key_id" -> [stored EXCEPT !.key_id = fresh.key_id]
      [] field = "secret" -> stored
      [] OTHER            -> [stored EXCEPT !.session_cookie = fresh.session_cookie]

(* One of the assignments of lines 124, 125, 126 *)
commit_field(stored, fresh, field) ==
    CASE field = "key_id" -> [stored EXCEPT !.key_id = fresh.key_id]
      [] field = "secret" -> [stored EXCEPT !.secret = fresh.secret]
      [] OTHER            -> [stored EXCEPT !.session_cookie = fresh.session_cookie]

(* What __call__ has read so far, and how many assignments of commits had  *)
(* been made when it began                                                 *)
Local(k, s, began) == [key_id |-> k, secret |-> s, began |-> began]

NoLocal == Local("", "", 0)

(* A request as thread B sent it: the key_id in its query, the secret its  *)
(* signature was made with, its session cookie, and the assignments of     *)
(* commits made when its signing began and ended                           *)
Signing(k, s, c, began, ended) ==
    [key_id |-> k, secret |-> s, session_cookie |-> c,
     began |-> began, ended |-> ended]

(* Thread A's request is answered 401 with auto-login on: no_retry_copy()  *)
(* logs in and the request is sent again (lines 104-117)                   *)
ARelogin ==
    /\ th_a = "idle"
    /\ logins <= MaxRelogins
    /\ logins' = logins + 1
    /\ th_fresh' = CredsOf(logins + 1)
    /\ th_a' = "replay"
    /\ UNCHANGED <<key_id, secret, session_cookie, th_b, th_local, th_out, th_steps>>
    /\ UNCHANGED <<auth_rest, not_thread_vars>>

(* The replay is not answered 2xx: nothing is committed (lines 130-132) *)
AReplayFails ==
    /\ th_a = "replay"
    /\ th_a' = "idle"
    /\ UNCHANGED <<key_id, secret, session_cookie, logins, th_fresh, th_b,
                   th_local, th_out, th_steps>>
    /\ UNCHANGED <<auth_rest, not_thread_vars>>

(* The replay was answered 2xx: the next assignment of lines 124-126 *)
ACommit ==
    /\ th_a \in {"replay", "secret", "session_cookie"}
    /\ LET field == IF th_a = "replay" THEN "key_id" ELSE th_a
           after == commit_field(Self, th_fresh, field)
       IN  /\ key_id' = after.key_id
           /\ secret' = after.secret
           /\ session_cookie' = after.session_cookie
           /\ th_a' = CASE field = "key_id" -> "secret"
                        [] field = "secret" -> "session_cookie"
                        [] OTHER            -> "idle"
    /\ th_steps' = th_steps + 1
    /\ UNCHANGED <<logins, th_fresh, th_b, th_local, th_out>>
    /\ UNCHANGED <<auth_rest, not_thread_vars>>

(* Thread B, line 188: req_params['key_id'] = self._key_id *)
BReadKeyId ==
    /\ th_b = "idle"
    /\ Len(th_out) < MaxSigned
    /\ th_local' = Local(key_id, "", th_steps)
    /\ th_b' = "key_id"
    /\ UNCHANGED <<key_id, secret, session_cookie, logins, th_a, th_fresh,
                   th_out, th_steps>>
    /\ UNCHANGED <<auth_rest, not_thread_vars>>

(* Thread B, line 218: the signature is made with self._secret *)
BReadSecret ==
    /\ th_b = "key_id"
    /\ th_local' = [th_local EXCEPT !.secret = secret]
    /\ th_b' = "secret"
    /\ UNCHANGED <<key_id, secret, session_cookie, logins, th_a, th_fresh,
                   th_out, th_steps>>
    /\ UNCHANGED <<auth_rest, not_thread_vars>>

(* Thread B, lines 231-236: self._session_cookie goes into the request,    *)
(* which is returned to the session and sent                               *)
BReadCookie ==
    /\ th_b = "secret"
    /\ th_out' = Append(th_out, Signing(th_local.key_id, th_local.secret,
                                        session_cookie, th_local.began, th_steps))
    /\ th_local' = NoLocal
    /\ th_b' = "idle"
    /\ UNCHANGED <<key_id, secret, session_cookie, logins, th_a, th_fresh,
                   th_steps>>
    /\ UNCHANGED <<auth_rest, not_thread_vars>>

ThreadsInit ==
    /\ AuthInit
    /\ auto_login = TRUE
    /\ SignerIdle
    /\ ClientIdle
    /\ FilesIdle
    /\ CliIdle
    /\ UploadIdle
    /\ th_a = "idle"
    /\ th_fresh = CredsOf(1)
    /\ th_b = "idle"
    /\ th_local = NoLocal
    /\ th_out = <<>>
    /\ th_steps = 0

ThreadsNext ==
    \/ ARelogin
    \/ AReplayFails
    \/ ACommit
    \/ BReadKeyId
    \/ BReadSecret
    \/ BReadCookie

SpecThreads == ThreadsInit /\ [][ThreadsNext]_vars

----------------------------------------------------------------------------
(* Vocabulary of the properties *)

IsLogin(m) == m.path = "/user/login/"

(* How many times the running operation transmitted its request *)
Transmissions == Cardinality({i \in 1..Len(wire) : ~IsLogin(wire[i])})

(* How many login calls the running operation made *)
LoginCalls == Cardinality({i \in 1..Len(wire) : IsLogin(wire[i])})

(* The running operation is a request that the authenticator signed *)
SignedRequest == wire # <<>> /\ ~IsLogin(wire[1]) /\ wire[1].by = "self"

Replayed == new_resp # NoResponse

Is2xx(st) == 200 <= st /\ st < 300

AuthFields == {"key_id", "expires", "sig"}

(* A query string without its authentication parameters *)
Plain(q) == SelectSeq(q, LAMBDA e : e.k \notin AuthFields)

(* The authenticator that attached to the request last *)
Attacher == IF req.by = "self" THEN Self
            ELSE Creds(retry_auth.key_id, retry_auth.secret, retry_auth.session_cookie)

JustAttached == pc \in {"sent", "replay"} /\ req.by # "none"

----------------------------------------------------------------------------
(* C1 (as amended): with auto-login on, a request is transmitted at most    *)
(* twice and at most one login call is made for it, whatever the answers;   *)
(* when every transmission of it is answered 401 and the fresh login        *)
(* succeeds it is transmitted exactly twice, and the replay's 401 ends the  *)
(* operation: no further login, no further replay.                          *)
C1_AtMostOneReplay ==
    /\ Transmissions <= 2
    /\ LoginCalls <= (IF SignedRequest THEN 1 ELSE LoginCalls)
    /\ (pc = "done" /\ SignedRequest /\ auto_login /\ resp.status = 401
          /\ retry_auth.made /\ new_resp.status = 401)
       => (Transmissions = 2 /\ LoginCalls = 1 /\ Len(wire) = 3)
    /\ (SignedRequest /\ Replayed) => pc = "done"

C1_Witness ==
    /\ pc = "done" /\ SignedRequest /\ auto_login
    /\ resp.status = 401 /\ new_resp.status = 401 /\ Transmissions = 2

(* C1 as stated: when every answer of the server is 401, the request is     *)
(* transmitted exactly 2 times.                                             *)
C1_Original ==
    (pc = "done" /\ SignedRequest /\ auto_login
       /\ \A i \in 1..Len(answers) : answers[i] = 401)
    => Transmissions = 2

(* C2: with auto-login off, a 401 is handed back unchanged after one        *)
(* attempt: no login call, no replay.                                       *)
C2_NoRetryWhenDisabled ==
    /\ (SignedRequest /\ ~auto_login) => pc \notin {"login", "replay"}
    /\ (pc = "done" /\ SignedRequest /\ ~auto_login /\ resp.status = 401)
       => /\ outcome = Returned("resp", resp)
          /\ outcome.status = 401
          /\ Len(wire) = 1
          /\ retry_auth = NoAuth

C2_Witness ==
    /\ pc = "done" /\ SignedRequest /\ ~auto_login /\ resp.status = 401
    /\ outcome.kind = "response"

(* C3: after a relogin and replay the caller gets the replay's response if  *)
(* and only if its status is 2xx, and the original 401 response otherwise.  *)
C3_ReplayOrOriginal ==
    (pc = "done" /\ SignedRequest /\ Replayed)
    => /\ (outcome.which = "new_resp") <=> Is2xx(new_resp.status)
       /\ Is2xx(new_resp.status) => outcome = Returned("new_resp", new_resp)
       /\ ~Is2xx(new_resp.status)
            => (outcome = Returned("resp", resp) /\ outcome.status = 401)

C3_Witness ==
    /\ pc = "done" /\ SignedRequest /\ Replayed
    /\ new_resp.status = 500 /\ outcome.status = 401

(* C4: the fresh key_id, secret and session cookie are committed exactly    *)
(* when the replay succeeds; later requests are signed with the new secret  *)
(* and send the new cookie; after a failed replay the stored values are     *)
(* those held before the 401.                                               *)
C4_CommitOnSuccess ==
    /\ (SignedRequest /\ pc \in {"login", "replay"}) => Self = held
    /\ (pc = "done" /\ SignedRequest /\ Replayed /\ Is2xx(new_resp.status))
       => /\ key_id = KeyIdOf(logins) /\ secret = SecretOf(logins)
          /\ session_cookie = save_cookie(Cookie(logins, 0), new_resp.cookie)
          /\ key_id # held.key_id /\ secret # held.secret
          /\ session_cookie.g # held.session_cookie.g
          /\ old = held
    /\ (pc = "done" /\ SignedRequest /\ Replayed /\ ~Is2xx(new_resp.status))
       => Self = held
    /\ (pc = "done" /\ SignedRequest /\ ~Replayed)
       => (key_id = held.key_id /\ secret = held.secret)
    /\ (pc = "sent" /\ SignedRequest)
       => /\ Get(req.query, "key_id") = key_id
          /\ Get(req.query, "sig") = b64_hmac(secret, Join(req.signing_list))
          /\ req.cookie = session_cookie
          /\ old.secret # ""
               => /\ Get(req.query, "sig") # b64_hmac(old.secret, Join(req.signing_list))
                  /\ req.cookie # old.session_cookie
                  /\ Get(req.query, "key_id") # old.key_id

C4_Witness ==
    pc = "sent" /\ SignedRequest /\ old.secret # "" /\ req.cookie.g = 2

(* C5 as stated: when the login made for the relogin is refused, the        *)
(* caller gets the original 401 response.                                   *)
C5_Original ==
    (pc = "done" /\ SignedRequest /\ Len(answers) = 2 /\ LoginCalls = 1
       /\ ~Is2xx(answers[2]))
    => outcome = Returned("resp", resp)

(* C6 as stated: every request sent through the session carries the active  *)
(* credential (key_id, expires, sig and the session cookie).                *)
C6_Original ==
    \A i \in 1..Len(wire) :
        ~IsLogin(wire[i])
        => /\ \A f \in AuthFields : Has(wire[i].query, f)
           /\ wire[i].cookie.g > 0

(* C7 as stated: a replacement session cookie on the response delivered for *)
(* a signed request is stored, whatever the status.                         *)
C7_Original ==
    (pc = "done" /\ SignedRequest /\ outcome.kind = "response"
       /\ outcome.cookie # NoCookie)
    => session_cookie = outcome.cookie

(* C8: the replay is the original request (method, path, body, other        *)
(* parameters) authenticated with the fresh login's key_id, expires, sig    *)
(* and cookie alone; nothing of the old session stays on it.                *)
C8_ReplayReauthenticated ==
    (pc = "replay" /\ SignedRequest)
    => LET m == wire[Len(wire)]
           o == wire[1]
       IN  /\ m = req
           /\ m.method = o.method /\ m.path = o.path
           /\ m.body = o.body /\ m.ctype = o.ctype
           /\ Plain(m.query) = Plain(o.query)
           /\ \A f \in AuthFields : Count(m.query, f) = 1
           /\ Get(m.query, "key_id") = KeyIdOf(logins)
           /\ Get(m.query, "key_id") # Get(o.query, "key_id")
           /\ Get(m.query, "expires") = ToStr(m.at + ValidityMs)
           /\ m.at >= o.at /\ m.at <= now
           /\ m.signing_list[6] = Get(m.query, "expires")
           /\ Get(m.query, "sig") = b64_hmac(SecretOf(logins), Join(m.signing_list))
           /\ Get(m.query, "sig") # Get(o.query, "sig")
           /\ m.cookie = Cookie(logins, 0)
           /\ m.cookie # o.cookie
           /\ m.hooks = <<"retry">>

C8_Witness ==
    pc = "replay" /\ SignedRequest /\ Has(req.query, "q") /\ req.at > wire[1].at

ParamLines(q, form) ==
    LET ks == SelectSeq(KeyOrder,
                        LAMBDA k : (Has(q, k) /\ k \notin {"expires", "sig"})
                                   \/ Has(form, k))
    IN  [i \in 1..Len(ks) |->
           ks[i] \o ": " \o js_compatible_quote(
               IF Has(form, ks[i]) THEN Get(form, ks[i]) ELSE Get(q, ks[i]))]

(* C10: the signing string of a JSON request with a body holds a non-empty  *)
(* content hash and the content type, and its body adds no parameters; that *)
(* of a form-encoded request holds an empty content hash and content type,  *)
(* and the body's fields are among the sorted parameter lines together with *)
(* the URL parameters.                                                      *)
C10_ContentBranches ==
    JustAttached
    => LET sl == req.signing_list
           lines == SubSeq(sl, 7, Len(sl))
       IN  /\ req.ctype = CT_JSON
                => /\ sl[4] # "" /\ sl[4] = content_hash_of(req.body)
                   /\ sl[5] = CT_JSON
                   /\ lines = ParamLines(req.query, <<>>)
           /\ req.ctype = CT_FORM
                => /\ sl[4] = "" /\ sl[5] = ""
                   /\ lines = ParamLines(req.query, FormFields(req.body))
           /\ req.ctype = CT_NONE
                => /\ sl[4] = "" /\ sl[5] = ""
                   /\ lines = ParamLines(req.query, <<>>)

C10_Witness ==
    /\ JustAttached /\ req.ctype = CT_FORM
    /\ Has(req.query, "q") /\ Has(FormFields(req.body), "r")
    /\ Len(req.signing_list) > 7

----------------------------------------------------------------------------
(* Vocabulary of the signer's properties *)

Signed == sign_out # <<>>

(* A dictionary as the set of its key/value pairs *)
AsMap(d) == {<<d[i].k, d[i].v>> : i \in 1..Len(d)}

(* The content type and body __call__ handed to __signing_string *)
SignedContent(r) ==
    IF r.ctype = CT_JSON THEN <<CT_JSON, r.body>> ELSE <<CT_NONE, BODY_NONE>>

(* What went into the i-th signing computation *)
SignerInputs(i) ==
    [method |-> sign_out[i].method, host |-> Host, path |-> sign_out[i].path,
     params |-> AsMap(sign_out[i].params),
     expiry |-> sign_out[i].at + ValidityMs,
     content |-> SignedContent(sign_out[i]), secret |-> sign_in[i].a.secret]

SigOf(r) == Get(r.query, "sig")

(* The lines after the six fixed ones name the parameters in sorted order *)
ParamLinesSorted(r) ==
    LET keys == SelectSeq(KeyOrder, LAMBDA k : Has(r.params, k))
    IN  SubSeq(r.signing_list, 7, Len(r.signing_list)) =
            [i \in 1..Len(keys) |->
                keys[i] \o ": " \o js_compatible_quote(Get(r.params, keys[i]))]

(* The two signed parameter dictionaries hold the same pairs, inserted in  *)
(* different orders                                                        *)
Reordered ==
    /\ AsMap(sign_out[1].params) = AsMap(sign_out[2].params)
    /\ sign_out[1].params # sign_out[2].params

----------------------------------------------------------------------------
(* C11: the signature does not depend on the order in which the parameters *)
(* were inserted: two signing computations whose parameter dictionaries    *)
(* hold the same key/value pairs, all other inputs equal, produce the same *)
(* canonical string and the same signature, and the parameter lines are in *)
(* lexicographically sorted key order.                                     *)
C11_OrderIndependent ==
    (Signed /\ SignerInputs(1) = SignerInputs(2))
        => /\ sign_out[1].signing_list = sign_out[2].signing_list
           /\ SigOf(sign_out[1]) = SigOf(sign_out[2])
           /\ ParamLinesSorted(sign_out[1])
           /\ ParamLinesSorted(sign_out[2])

C11_Witness ==
    /\ Signed
    /\ SignerInputs(1) = SignerInputs(2)
    /\ Reordered
    /\ Len(sign_out[1].params) >= 3

----------------------------------------------------------------------------
(* C12: the signer is a pure function of method, host, path, parameters,   *)
(* expiry, content type and body, and secret: whenever two signing         *)
(* computations agree on these, the joined canonical strings and the       *)
(* signatures are identical, whichever authenticator signed, whatever      *)
(* session cookie it held, and whatever Cookie header or stale             *)
(* authentication parameters the request arrived with.                     *)
C12_PureSigner ==
    (Signed /\ SignerInputs(1) = SignerInputs(2))
        => /\ Join(sign_out[1].signing_list) = Join(sign_out[2].signing_list)
           /\ SigOf(sign_out[1]) =
                  b64_hmac(sign_in[2].a.secret, Join(sign_out[2].signing_list))
           /\ SigOf(sign_out[2]) =
                  b64_hmac(sign_in[1].a.secret, Join(sign_out[1].signing_list))

C12_Witness ==
    /\ Signed
    /\ SignerInputs(1) = SignerInputs(2)
    /\ sign_in[1].a.session_cookie # sign_in[2].a.session_cookie
    /\ sign_in[1].r.cookie # sign_in[2].r.cookie
    /\ sign_in[1].r.ctype # sign_in[2].r.ctype
    /\ Has(sign_in[1].r.query, "sig") /\ ~Has(sign_in[2].r.query, "sig")

----------------------------------------------------------------------------
(* Vocabulary of the client's properties *)

VerbRunning == client_op.name \in Verbs

ClientDone == client_pc = "done"

(* The answer the running operation received last *)
LastReply == replies[Len(replies)]

Answered == ClientDone /\ LastReply.kind = "response"

(* A 4xx other than an authentication failure *)
Other4xx(status) == 400 <= status /\ status < 500 /\ status \notin {401, 403}

(* The running operation made no request after the answer that ended it,   *)
(* and a verb method made exactly one                                       *)
SingleAttempt ==
    /\ Len(sent) = Len(replies)
    /\ VerbRunning => Len(sent) = 1

----------------------------------------------------------------------------
(* C13 (as stated): every 4xx response other than 401/403 is raised to the *)
(* caller as LuminosoClientError after a single HTTP attempt.               *)
C13_Original ==
    (Answered /\ Other4xx(LastReply.status))
        => /\ result.kind = "raise"
           /\ result.error = "LuminosoClientError"
           /\ SingleAttempt

(* C13 (as amended): a 400, 404 or 405 response is raised to the caller as *)
(* LuminosoClientError, and every other 4xx response that is not 401/403   *)
(* is raised as the base LuminosoError; in both cases immediately after a  *)
(* single HTTP attempt and never retried.                                   *)
C13_ClientErrors ==
    /\ VerbRunning => Len(sent) = 1
    /\ (Answered /\ Other4xx(LastReply.status))
          => /\ result.kind = "raise"
             /\ result.error = IF LastReply.status \in {400, 404, 405}
                               THEN "LuminosoClientError" ELSE "LuminosoError"
             /\ SingleAttempt

C13_Witness ==
    /\ Answered /\ VerbRunning
    /\ LastReply.status = 404
    /\ result.error = "LuminosoClientError"
    /\ Len(sent) = 1

----------------------------------------------------------------------------
(* C14: every 5xx response is raised to the caller as LuminosoServerError  *)
(* after exactly one HTTP attempt: no retry follows it and no result is    *)
(* returned for it.                                                         *)
C14_ServerErrors ==
    (Answered /\ LastReply.status >= 500)
        => /\ result.kind = "raise"
           /\ result.error = "LuminosoServerError"
           /\ SingleAttempt

C14_Witness ==
    /\ Answered /\ VerbRunning
    /\ LastReply.status = 500
    /\ LastReply.json
    /\ result.error = "LuminosoServerError"
    /\ Len(sent) = 1

----------------------------------------------------------------------------
----------------------------------------------------------------------------
(* The keys of a dictionary, in order *)
Keys(d) == [i \in 1..Len(d) |-> d[i].k]

----------------------------------------------------------------------------
(* The url ends in exactly one slash *)
OneTrailingSlash(url) ==
    /\ Len(url) >= 2
    /\ url[Len(url)] = "/"
    /\ url[Len(url) - 1] # "/"

(* url is base followed by path, up to the slashes at its end *)
Follows(url, base, path) == rstrip(url) = rstrip(base \o path)

(* clients[k] is what client_for_path made of its parent and its path *)
Derived(k) ==
    LET c == clients[k]
        parent == clients[c.parent]
    IN  /\ c.parent < k
        /\ IF c.path # <<>> /\ c.path[1] = "/"
           THEN Follows(c.url, parent.root_url, c.path)
           ELSE Follows(c.url, parent.url, c.path)
        /\ OneTrailingSlash(c.url)
        /\ c.root_url = parent.root_url
        /\ c.session = parent.session

(* C17: along any chain of client_for_path calls, a path without a leading *)
(* slash yields a client whose url is its parent's url followed by the     *)
(* path, a path with a leading slash one whose url is the root_url         *)
(* followed by the path, each url ending in exactly one slash; every       *)
(* derived client has the root_url and the session of its parent, and no   *)
(* call changes a client that exists already.                               *)
C17_ClientForPath ==
    /\ [](\A k \in 1..Len(clients) : clients[k].parent # 0 => Derived(k))
    /\ [][\A k \in 1..Len(clients) : clients'[k] = clients[k]]_vars

(* A chain of two calls: a relative path, then an absolute one from the    *)
(* derived client, whose url does not lie under the root_url               *)
C17_Witness ==
    /\ Len(clients) = 3
    /\ clients[1].url = <<Origin, "/">>
    /\ clients[2].parent = 1 /\ clients[2].path = <<"a">>
    /\ clients[3].parent = 2 /\ clients[3].path = <<"/", "a">>
    /\ clients[3].url = <<Origin, "/", "api", "/", "v5", "/", "a", "/">>

----------------------------------------------------------------------------
(* Vocabulary of the polling properties *)

BuildWaiting(wait_for_sentiment) ==
    /\ client_op.name = "wait_for_build"
    /\ client_op.wait_for_sentiment = wait_for_sentiment

(* The k-th poll was answered with a project record *)
Polled(k) ==
    /\ k \in 1..Len(replies)
    /\ replies[k].kind = "response" /\ replies[k].status = 200 /\ replies[k].json

PollInfo(k) == replies[k].info

Running(b) == ~b.empty /\ ~b.stop_time
Failed(b) == ~b.empty /\ b.stop_time /\ ~b.success
Succeeded(b) == ~b.empty /\ b.stop_time /\ b.success

(* The operation ended at its k-th poll: nothing was sent after it *)
EndedAt(k) == ClientDone /\ k = Len(replies) /\ Len(sent) = k

(* The operation went on after its k-th poll: it slept and polled again *)
WentOnAfter(k) == Len(sent) > k /\ sleeps >= k

AllGets ==
    \A k \in 1..Len(sent) :
        /\ sent[k].method = "get"
        /\ sent[k].url = clients[client_op.client].url

----------------------------------------------------------------------------
(* C18: wait_for_build polls the project with one GET at a time and stops  *)
(* at the first poll whose last_build_info has a stop_time: a record with  *)
(* success true is returned, for one with success false a LuminosoError    *)
(* whose args carry that record is raised; the number of GETs made is the  *)
(* position of that poll and no request is made after it; a poll whose     *)
(* record has no stop_time is followed by a sleep and another GET.         *)
C18_WaitForBuild ==
    BuildWaiting(FALSE)
        => /\ AllGets
           /\ Len(sent) \in {Len(replies), Len(replies) + 1}
           /\ sleeps = Len(sent) - 1
           /\ \A k \in 1..Len(replies) :
                 (Polled(k) /\ ~PollInfo(k).empty)
                    => /\ Running(PollInfo(k)) => WentOnAfter(k)
                       /\ Succeeded(PollInfo(k))
                             => /\ EndedAt(k)
                                /\ result = Result("return", "", PollInfo(k))
                       /\ Failed(PollInfo(k))
                             => /\ EndedAt(k)
                                /\ result = Result("raise", "LuminosoError",
                                                   PollInfo(k))

(* running, running, succeeded: three GETs, the third record returned *)
C18_Witness ==
    /\ BuildWaiting(FALSE) /\ ClientDone
    /\ Len(sent) = 3 /\ Len(replies) = 3
    /\ Running(PollInfo(1)) /\ Running(PollInfo(2)) /\ Succeeded(PollInfo(3))
    /\ result = Result("return", "", PollInfo(3))

----------------------------------------------------------------------------
(* C19: when a poll of wait_for_build or of wait_for_sentiment_build       *)
(* returns an empty last_build_info, ValueError ('not building') is raised *)
(* at that poll, with no sleep and no request after it.                    *)
C19_NotBuilding ==
    \A k \in 1..Len(replies) :
        (client_op.name = "wait_for_build" /\ Polled(k) /\ PollInfo(k).empty)
            => /\ EndedAt(k)
               /\ sleeps = k - 1
               /\ result = Result("raise", "ValueError",
                                  Message("This project is not building!"))

C19_Witness ==
    /\ BuildWaiting(TRUE) /\ ClientDone
    /\ Len(replies) = 2 /\ Polled(2) /\ PollInfo(2).empty
    /\ result.error = "ValueError"
    /\ Len(sent) = 2 /\ sleeps = 1

----------------------------------------------------------------------------
BothSucceeded(info) == Succeeded(info) /\ Succeeded(info.sentiment)

RaisedWith(k) ==
    EndedAt(k) /\ result = Result("raise", "LuminosoError", PollInfo(k))

NotBuildingSentiment(k) ==
    /\ EndedAt(k)
    /\ result = Result("raise", "ValueError",
                       Message("This project is not building sentiment!"))

(* The first two parts of C20, which hold as stated: the record is         *)
(* returned only at the first poll where the base build and the sentiment  *)
(* build both have a stop_time and success true, and polling goes on while *)
(* the base build has succeeded and the sentiment build has no stop_time.  *)
ReturnsWhenBothSucceeded ==
    /\ result.kind = "return"
          => /\ EndedAt(Len(replies))
             /\ result.value = PollInfo(Len(replies))
             /\ \A k \in 1..Len(replies) :
                   BothSucceeded(PollInfo(k)) <=> k = Len(replies)
    /\ \A k \in 1..Len(replies) :
          (Polled(k) /\ Succeeded(PollInfo(k)) /\ Running(PollInfo(k).sentiment))
              => WentOnAfter(k)

----------------------------------------------------------------------------
(* Vocabulary of the token file's properties *)

(* The domain a url or a domain argument names *)
Names(where, d) ==
    \/ where # <<>> /\ (Head(where) = d \/ netloc(Head(where)) = d)
    \/ d = Daylight /\ (where = <<>> \/ (Head(where) \notin Domains
                                          /\ netloc(Head(where)) = ""))

IsSave(k) == calls[k].name = "save_token"

IsConnect(k) == calls[k].name = "connect"

(* C21: token persistence round-trips: after save_token(token, domain,     *)
(* token_file), a connect() to a URL on that domain with no explicit token *)
(* and the same token file yields a client that authenticates with exactly *)
(* that token; save_token changes only the entry of the given domain and   *)
(* leaves the entries of all other domains unchanged.                      *)
C21_TokenRoundTrip ==
    \A k \in 1..Len(calls) : IsSave(k) =>
        /\ calls[k].after.exists
        /\ \A d \in Domains :
              calls[k].after.tokens[d] =
                  IF Names(calls[k].where, d) THEN calls[k].token
                  ELSE calls[k].before.tokens[d]
        /\ (k < Len(calls) /\ IsConnect(k + 1) /\ calls[k + 1].token = NoToken
              /\ \E d \in Domains : Names(calls[k].where, d)
                                    /\ Names(calls[k + 1].where, d))
              => /\ calls[k + 1].raised = ""
                 /\ calls[k + 1].made = calls[k].token
                 /\ k + 1 = Len(calls)
                       => clients[Len(clients)].session.token = calls[k].token

C21_Witness ==
    /\ Len(calls) = 2 /\ IsSave(1) /\ IsConnect(2)
    /\ calls[1].where = <<Localhost, "/", "api", "/", "v5">>
    /\ calls[1].token = "t2"
    /\ calls[1].before.tokens[Localhost] = "t0"
    /\ calls[1].before.tokens[Daylight] = "t0"
    /\ calls[2].where = BASE_URL /\ calls[2].token = NoToken
    /\ clients # <<>> /\ clients[Len(clients)].session.token = "t2"
    /\ token_file.tokens[Daylight] = "t0"

----------------------------------------------------------------------------
(* The domain of the root URL of the k-th call's url *)
RootDomain(k) == CHOOSE d \in Domains : Names(calls[k].where, d)

(* The token stored for d under the legacy domain, where d has one *)
LegacyEntry(file, d) ==
    IF d = Daylight THEN file.tokens[Analytics] ELSE NoToken

Wrote(k) == \E i \in 1..Len(calls[k].log) : calls[k].log[i] = "write"

Failed401(k) ==
    /\ calls[k].raised = "LuminosoAuthError"
    /\ calls[k].made = NoToken
    /\ calls[k].after = calls[k].before
    /\ ~Wrote(k)

Connections == {k \in 1..Len(calls) : IsConnect(k) /\ calls[k].raised = ""}

----------------------------------------------------------------------------
(* The calls of the verb method named on the command line *)
VerbCalls ==
    {i \in 1..Len(cli_trace) :
        cli_trace[i].ev = "call" /\ cli_trace[i].b = cli_args.path}

ParamKeys == {"", "one", "two", "three", "four", "five", "six"}

(* The -p options that name key k *)
OptionsFor(k) ==
    {i \in 1..Len(cli_args.param) : split_eq(cli_args.param[i])[1] = k}

InObject(json, k) == json.kind = "object" /\ Has(json.object, k)

(* C23: the verb method receives the union of the keys of the JSON file,  *)
(* of the -j object and of the -p options, each key once; a key's value is *)
(* the raw string of its last -p option if it has one, else its value in   *)
(* the -j object if it is there, else its value in the file.               *)
C23_ParameterMerging ==
    \A i \in VerbCalls : \A k \in ParamKeys :
        LET params == cli_trace[i].params
        IN  CASE OptionsFor(k) # {} ->
                   LET last == CHOOSE n \in OptionsFor(k) :
                                   \A m \in OptionsFor(k) : m <= n
                   IN  /\ Count(params, k) = 1
                       /\ Get(params, k) =
                              Value("str", split_eq(cli_args.param[last])[2])
              [] OptionsFor(k) = {} /\ InObject(cli_args.json_body, k) ->
                   /\ Count(params, k) = 1
                   /\ Get(params, k) = Get(cli_args.json_body.object, k)
              [] OptionsFor(k) = {} /\ ~InObject(cli_args.json_body, k)
                     /\ InObject(cli_args.input_file, k) ->
                   /\ Count(params, k) = 1
                   /\ Get(params, k) = Get(cli_args.input_file.object, k)
              [] OTHER -> Count(params, k) = 0

C23_Witness ==
    /\ cli_pc = "exit"
    /\ cli_args.program = "cli"
    /\ cli_args.method = "get"
    /\ cli_args.param = << <<"one", "=", "\"won\"">> >>
    /\ InObject(cli_args.json_body, "two")
    /\ InObject(cli_args.input_file, "three")
    /\ \E i \in VerbCalls :
          cli_trace[i].params =
              <<P("one", Value("str", "\"won\"")),
                P("two", Value("str", "too")),
                P("three", Value("int", "3"))>>

Confirmations ==
    {i \in 1..Len(cli_trace) :
        cli_trace[i].ev = "input" /\ cli_trace[i].a = "confirm"}

DeleteCalls ==
    {i \in 1..Len(cli_trace) :
        cli_trace[i].ev = "call" /\ cli_trace[i].a = "delete"}

(* C24 as stated: lumi-api never calls delete without confirmation: for    *)
(* the delete verb it prompts after connecting and before any request, it  *)
(* calls the client's delete only if the answer is '', 'y' or 'Y', and on  *)
(* any other answer it exits without calling delete.                       *)
C24_Original ==
    /\ \A i \in DeleteCalls :
          i - 1 \in Confirmations /\ cli_trace[i - 1].b \in Accepting
    /\ (cli_args.method = "delete" /\ cli_pc = "call") =>
          Len(cli_trace) \in Confirmations
    /\ \A i \in Confirmations :
          /\ cli_args.method = "delete"
          /\ \E j \in 1..(i - 1) : cli_trace[j].ev = "connect"
          /\ \A j \in 1..(i - 1) : cli_trace[j].ev # "call"
          /\ cli_trace[i].b \notin Accepting =>
                cli_pc = "exit" /\ cli_status = 0 /\ i = Len(cli_trace)

(* C24 amended: the prompt comes after connecting and before the call of   *)
(* the verb named on the command line (v5_cli.py has by then tested the    *)
(* token with a GET of /projects); delete is called only right after an    *)
(* answer of '', 'y' or 'Y', and any other answer ends the process with    *)
(* status 0 and without a call of delete.                                  *)
C24_ConfirmedDelete ==
    /\ \A i \in DeleteCalls :
          i - 1 \in Confirmations /\ cli_trace[i - 1].b \in Accepting
    /\ (cli_args.method = "delete" /\ cli_pc = "call") =>
          Len(cli_trace) \in Confirmations
    /\ \A i \in Confirmations :
          /\ cli_args.method = "delete"
          /\ \E j \in 1..(i - 1) : cli_trace[j].ev = "connect"
          /\ \A j \in 1..(i - 1) :
                cli_trace[j].ev = "call" =>
                    /\ cli_args.program = "v5_cli"
                    /\ cli_trace[j].a = "get" /\ cli_trace[j].b = "/projects"
          /\ cli_trace[i].b \notin Accepting =>
                cli_pc = "exit" /\ cli_status = 0 /\ i = Len(cli_trace)

C24_Witness ==
    /\ cli_pc = "exit"
    /\ cli_args.program = "v5_cli"
    /\ cli_args.method = "delete"
    /\ Len(cli_trace) \in Confirmations
    /\ cli_trace[Len(cli_trace)].b = "n"
    /\ cli_trace[1].ev = "connect"
    /\ DeleteCalls = {}

----------------------------------------------------------------------------
Ceil(n, size) == (n + size - 1) \div size

(* Every request of the upload was answered 200 with a JSON body *)
AnsweredOk ==
    \A i \in 1..Len(up_replies) :
        /\ up_replies[i].kind = "response"
        /\ up_replies[i].status = 200
        /\ up_replies[i].json

(* C25: creating a project from n > 0 documents sends, in this order, one  *)
(* POST creating the project, ceil(n / BATCH_SIZE) upload POSTs, exactly   *)
(* one build POST and then GET polls, and ends by returning the project    *)
(* record.                                                                 *)
C25_Original ==
    (up_pc = "done" /\ Len(up_args.docs) > 0 /\ AnsweredOk) =>
        LET b == Ceil(Len(up_args.docs), BATCH_SIZE)
        IN  /\ up_result.kind = "return"
            /\ Len(up_sent) >= b + 3
            /\ \A i \in 1..(b + 2) : up_sent[i].method = "post"
            /\ \A i \in (b + 3)..Len(up_sent) : up_sent[i].method = "get"

----------------------------------------------------------------------------
(* The running operation is a request in bearer-token mode *)
TokenRequest == wire # <<>> /\ wire[1].by = "token"

(* The first answer is a 401 to a signed request with auto-login on *)
ReloginCase == SignedRequest /\ auto_login /\ answers # <<>> /\ answers[1] = 401

(* C26: a login call and a replay are made only after a 401 answered to a  *)
(* request in signing mode with auto-login on; a request answered with any *)
(* other status, 403 and 5xx among them, and every request in bearer-token *)
(* mode, is transmitted once, makes no login call, and its response is     *)
(* what the caller gets.                                                   *)
C26_ReloginOnlyOn401 ==
    /\ (LoginCalls > 0 \/ Transmissions > 1 \/ pc \in {"login", "replay"})
          => ReloginCase
    /\ (pc = "done" /\ wire # <<>> /\ ~ReloginCase) =>
          /\ Len(wire) = 1
          /\ Len(answers) = 1
          /\ retry_auth = NoAuth
          /\ outcome = Returned("resp", resp)
          /\ outcome.status = answers[1]

C26_Witness ==
    /\ pc = "done"
    /\ TokenRequest
    /\ auto_login
    /\ answers = <<401>>
    /\ outcome = Returned("resp", resp)
    /\ ops = 2

----------------------------------------------------------------------------
(* C27: on a single-threaded client the stored key_id and secret always    *)
(* come from one and the same login response, and the stored session       *)
(* cookie belongs to that login's session (rotated or not), after any      *)
(* sequence of logins (successful, failed or answered with a malformed     *)
(* body), 401 responses and replays.                                       *)
C27_Original ==
    \E n \in 1..logins :
        /\ key_id = KeyIdOf(n)
        /\ secret = SecretOf(n)
        /\ session_cookie.g = n

----------------------------------------------------------------------------
(* The fields of a request thread B sent come from different logins *)
Mixed(e) ==
    ~\E n \in 1..logins :
        Creds(e.key_id, e.secret, e.session_cookie) = CredsOf(n)

(* A commit was under way at some moment of the signing of e *)
Overlapped(e) == e.began # e.ended \/ e.began % Len(CommitFields) # 0

(* The request was sent with the secret of a login older than the stored one *)
Stale(k) ==
    /\ k = Len(th_out)
    /\ th_b = "idle"
    /\ th_out[k].ended = th_steps
    /\ th_out[k].secret # secret

(* C28: two threads share a signing client without a lock; a request is    *)
(* sent with fields of different logins only when a commit of thread A     *)
(* was under way while thread B signed it, and such a request (new key_id  *)
(* with the old secret and the old session cookie) is reachable.           *)
C28_CommitRace ==
    \A k \in 1..Len(th_out) : Mixed(th_out[k]) => Overlapped(th_out[k])

C28_Witness ==
    /\ th_out # <<>>
    /\ th_out[1].key_id = KeyIdOf(2)
    /\ th_out[1].secret = SecretOf(1)
    /\ th_out[1].session_cookie = Cookie(1, 0)
    /\ Mixed(th_out[1])
    /\ Stale(1)

----------------------------------------------------------------------------
(* The client made by connect() that clients[i] was derived from *)
RECURSIVE RootClient(_)
RootClient(i) ==
    IF clients[i].parent = 0 THEN i ELSE RootClient(clients[i].parent)

(* C29: a client derived with client_for_path has the timeout of the       *)
(* client made by connect(timeout=T) it comes from, and every request a    *)
(* derived client makes is sent with that timeout T.                       *)
C29_Original ==
    /\ \A i \in 1..Len(clients) :
          clients[i].timeout = clients[RootClient(i)].timeout
    /\ \A k \in 1..Len(sent) :
          sent[k].timeout = clients[RootClient(client_op.client)].timeout

----------------------------------------------------------------------------
(* C30: whatever the query string and the form-encoded body of a signed    *)
(* request hold, the signing string has the line of the key_id sent in the *)
(* query string, and none of the parameters it covers is named expires or  *)
(* sig.                                                                    *)
C30_Original ==
    JustAttached
    => /\ \E i \in 7..Len(req.signing_list) :
             req.signing_list[i] =
                 "key_id: " \o js_compatible_quote(Get(req.query, "key_id"))
       /\ \A f \in {"expires", "sig"} :
             /\ ~Has(req.params, f)
             /\ \A i \in 7..Len(req.signing_list) :
                   \A v \in {"f", "9"} :
                      req.signing_list[i] # f \o ": " \o js_compatible_quote(v)

====
